---- MODULE Spec2Model ----
(***************************************************************************)
(* The document indexing pipeline of colnomic_qdrant_rag: one call of      *)
(* RetrievalPipeline.index_documents on a freshly constructed pipeline     *)
(* (the foreground thread), the background upload worker it starts,        *)
(* QdrantHandler.upsert_batch with its stamina retry, and                  *)
(* RetrievalPipeline.get_images_from_results.                              *)
(***************************************************************************)
EXTENDS Integers, Sequences, FiniteSets, TLC

\* ---------------------------------------------------------------- bounds
MaxDocs == 3          \* documents handed to the index_documents call
MaxBatchSize == 2     \* batch_size argument
MaxInitial == 1       \* points in the collection when the process starts
MaxResults == 3       \* points of a search result
MaxImages == 3        \* max_images argument
MaxQueryLen == 3      \* characters of a query string
MaxRuns == 2          \* index_documents calls of one interactive session
MaxSessionDocs == 1   \* documents of each of these calls
MaxLiveDocs == 2      \* documents of the call whose termination is checked
MaxUsers == 2         \* users created in one UserService
MaxTasks == 2         \* tasks created in one TaskService

\* ------------------------------------------------------ program constants
UPSERT_ATTEMPTS == 3
MINIO_UPLOAD_RETRY_ATTEMPTS == 3

\* ------------------------------------------------------------- helpers
Null == <<>>

Min(a, b) == IF a < b THEN a ELSE b

\* str(point_id) when the task is built, int(point_id) when the payload is patched
StrOf(n) == <<"str", n>>
IntOf(s) == s[2]

\* f"{safe_source_name}_idx{point_id}.{file_extension}"
ImageName(pid) == <<"unknown", "_idx", pid, "jpg">>

\* MinioHandler.upload_image: f"{protocol}://{endpoint}/{bucket}/{image_name}"
UrlOf(name) == <<"http", "localhost:9000", "le-images-3", name>>

\* the multivector the model computes for document d of run r
EmbeddingOf(r, d) == <<"emb", r, d>>

\* a fresh ProcessingMetrics()
ProcessingMetrics ==
    [ processed_docs |-> 0, successful_batches |-> 0, failed_batches |-> 0,
      total_upload_tasks |-> 0, completed_uploads |-> 0, failed_uploads |-> 0 ]

\* ImageProcessingTask(point_id=str(point_id), pil_image=..., image_name=...,
\*                     max_retries=config.MINIO_UPLOAD_RETRY_ATTEMPTS)
ImageProcessingTask(pid, img) ==
    [ point_id |-> StrOf(pid), pil_image |-> img, image_name |-> ImageName(pid),
      retries |-> 0, max_retries |-> MINIO_UPLOAD_RETRY_ATTEMPTS ]

\* the payload index_documents gives a new point
NewPayload(current_index, bid) ==
    [ source |-> "unknown", dataset_index |-> current_index, batch_id |-> bid,
      has_image |-> TRUE, image_url |-> Null, upload_pending |-> TRUE ]

\* models.PointStruct(id=point_id, vector=multivector, payload=payload)
PointStruct(pid, vec, payload) == [ id |-> pid, vector |-> vec, payload |-> payload ]

\* --------------------------------------------------------------- state
VARIABLES
    rerank,                 \* config.ENABLE_RERANKING_OPTIMIZATION
    points,                 \* the Qdrant collection: point id -> [vector, payload]
    upload_queue,           \* self.upload_queue (FIFO)
    upload_results,         \* self.upload_results: point_id -> image_url
    upload_errors,          \* self.upload_errors: point_id -> error message
    upload_worker_active,   \* self.upload_worker_active
    metrics,                \* self.metrics
    fpc,                    \* position of the foreground thread in index_documents
    run,                    \* index_documents calls started so far
    docs_total,             \* length of documents_iterable of the current call
    next_doc,               \* position of the iterator inside batch_iterable
    batch_size,             \* batch_size argument
    batch_id,               \* enumerate() index of the current batch
    batch_data,             \* the current batch: documents, in input order
    batch_points,           \* the local list `points` of the current batch
    upload_tasks,           \* the local list `upload_tasks` not yet put on the queue
    attempts,               \* attempts stamina has made in the current upsert_batch call
    sent,                   \* what each of these attempts sent to client.upsert
    upsert_result,          \* how the current upsert_batch call ended
    initial_points_count,
    global_doc_index,
    start_count,            \* history: points in the collection when the call began
    wpc,                    \* position of each background worker thread
    wtask,                  \* the task each worker holds
    wurl,                   \* image_url local of each worker
    batch_log,              \* history: outcome of every batch of the current call
    acked,                  \* history: documents whose batch upsert returned True
    enqueued,               \* history: tasks put on the queue by the current call
    search_results,         \* argument of get_images_from_results
    max_images,             \* argument of get_images_from_results
    image_urls,             \* its return value
    gpc,                    \* "input" before the call, "returned" after
    cli_mode,               \* "cli" for a single command, "interactive" for the shell
    command,                \* the command word being executed
    query,                  \* the query argument of ask / analyze
    use_openai,             \* the use_openai argument of the last ask call
    cpc,                    \* position of the process in main_cli
    openai_handler,         \* what setup_pipeline returned as openai_handler
    minio_handler,          \* pipeline.minio_handler
    collection_exists,      \* the Qdrant collection exists
    exit_code,              \* exit status of the process once cpc is "exited"
    returned,               \* return value of the last command function
    calls,                  \* calls the last command made, in order
    out,                    \* status messages the last command printed
    yielded,                \* parts search_with_openai_response yielded
    cleared_run,            \* history: value of run when the collection was last cleared
    cleared_points,         \* history: points the last clear found in the collection
    applied,                \* point ids whose upsert is visible to reads
    status_seen,            \* the status observations made, in order
    typed,                  \* what the user typed at the last confirmation prompt
    users,                  \* UserService._users
    user_next_id,           \* UserService._next_id
    tasks,                  \* TaskService._tasks
    task_next_id,           \* TaskService._next_id
    ret                     \* what the last service operation returned

fgvars == << fpc, run, docs_total, next_doc, batch_size, batch_id, batch_data,
             batch_points, upload_tasks, attempts, sent, upsert_result,
             initial_points_count, global_doc_index, start_count,
             batch_log, acked, enqueued >>
wkvars == << wpc, wtask, wurl >>
shvars == << points, upload_queue, upload_results, upload_errors,
             upload_worker_active, metrics >>
srvars == << search_results, max_images, image_urls, gpc >>
clvars == << cli_mode, command, query, use_openai, cpc, openai_handler,
             minio_handler, collection_exists, exit_code, returned, calls, out,
             yielded, cleared_run, cleared_points, applied, status_seen,
             typed >>
svvars == << users, user_next_id, tasks, task_next_id, ret >>
vars == << rerank, fgvars, wkvars, shvars, srvars, clvars, svvars >>

\* the worker threads: each index_documents call starts one (lines 210-213)
Workers == 1 .. MaxRuns
NoTask == <<>>

\* a point stored by an earlier process: its upload has completed
StoredPoint(i) ==
    [ vector |-> EmbeddingOf(0, i),
      payload |-> [ NewPayload(i, 0) EXCEPT !.image_url = UrlOf(ImageName(i)),
                                            !.upload_pending = FALSE ] ]

\* UserService.__init__ and TaskService.__init__
NoServices ==
    /\ users = << >>
    /\ user_next_id = 1
    /\ tasks = << >>
    /\ task_next_id = 1
    /\ ret = [ op |-> "none", result |-> "none", id |-> 0 ]

\* no command line process is under observation
NoProcess ==
    /\ cli_mode = "none"
    /\ command = "none"
    /\ query = <<>>
    /\ use_openai = FALSE
    /\ cpc = "none"
    /\ openai_handler = "none"
    /\ minio_handler = "handler"
    /\ collection_exists = TRUE
    /\ exit_code = 0
    /\ returned = "none"
    /\ calls = <<>>
    /\ out = <<>>
    /\ yielded = <<>>
    /\ cleared_run = 0
    /\ cleared_points = 0
    /\ applied = {}
    /\ status_seen = <<>>
    /\ typed = ""

\* RetrievalPipeline.__init__ and the state of the external services
Init ==
    /\ rerank \in BOOLEAN
    /\ \E c \in 0 .. MaxInitial : points = [ i \in 0 .. c - 1 |-> StoredPoint(i) ]
    /\ upload_queue = <<>>
    /\ upload_results = <<>>
    /\ upload_errors = <<>>
    /\ upload_worker_active = FALSE
    /\ metrics = ProcessingMetrics
    /\ fpc = "idle"
    /\ run = 0
    /\ docs_total = 0
    /\ next_doc = 1
    /\ batch_size = 1
    /\ batch_id = 0
    /\ batch_data = <<>>
    /\ batch_points = <<>>
    /\ upload_tasks = <<>>
    /\ attempts = 0
    /\ sent = <<>>
    /\ upsert_result = "none"
    /\ initial_points_count = 0
    /\ global_doc_index = 0
    /\ start_count = 0
    /\ wpc = [ w \in Workers |-> "none" ]
    /\ wtask = [ w \in Workers |-> NoTask ]
    /\ wurl = [ w \in Workers |-> Null ]
    /\ batch_log = <<>>
    /\ acked = {}
    /\ enqueued = <<>>
    /\ search_results = <<>>
    /\ max_images = 0
    /\ image_urls = <<>>
    /\ gpc = "unused"
    /\ NoProcess
    /\ NoServices

\* ------------------------------------------------ foreground: index_documents

\* itertools.islice(iterator, batch_size): how many documents the next batch takes
IsliceLen(remaining, size) == Min(size, remaining)

\* mutant of PointIdOf: the running document index is left out
PointIdWithinBatch(initial, gidx, j) == initial + j

\* point_id = initial_points_count + (global_doc_index + j)
PointIdOf(initial, gidx, j) == initial + (gidx + j)

\* ModelHandler.get_image_embeddings: a dict of three lists under the reranking
\* optimisation, the list of per-image embeddings otherwise
GetImageEmbeddings(r, docs) ==
    LET embs == [ k \in 1 .. Len(docs) |-> EmbeddingOf(r, docs[k]) ]
    IN  IF rerank
        THEN [ kind |-> "dict", items |-> << >>,
               original |-> embs, pooled_rows |-> embs, pooled_columns |-> embs ]
        ELSE [ kind |-> "list", items |-> embs,
               original |-> << >>, pooled_rows |-> << >>, pooled_columns |-> << >> ]

\* image_embeddings[j] with an integer j: defined on the list only (a KeyError
\* on the dict, whose keys are strings)
HasIntIndex(embeddings, j) == embeddings.kind = "list" /\ j + 1 <= Len(embeddings.items)

\* mutant of RetryUpsert: the call is not retried at all
RetryUpsertNever(n) == FALSE

\* stamina.retry(on=Exception, attempts=3): after a failed attempt number n,
\* another one is made while n is below the limit
RetryUpsert(n) == n < UPSERT_ATTEMPTS

\* mutant of UpsertInto: only the first point of the batch is written
UpsertFirstOnly(coll, batch) ==
    [ i \in DOMAIN coll \cup { batch[1].id } |->
        IF i = batch[1].id
        THEN [ vector |-> batch[1].vector, payload |-> batch[1].payload ]
        ELSE coll[i] ]

\* client.upsert(points=batch): insert or overwrite by point id
UpsertInto(coll, batch) ==
    [ i \in DOMAIN coll \cup { batch[k].id : k \in 1 .. Len(batch) } |->
        IF \E k \in 1 .. Len(batch) : batch[k].id = i
        THEN LET k == CHOOSE k \in 1 .. Len(batch) :
                        /\ batch[k].id = i
                        /\ \A m \in k + 1 .. Len(batch) : batch[m].id # i
             IN  [ vector |-> batch[k].vector, payload |-> batch[k].payload ]
        ELSE coll[i] ]

\* mutant of PutBlocks: a queue of capacity one, whose put waits for the worker
PutBlocksWhenFull(q) == Len(q) >= 1

\* Queue() has no maxsize: put never blocks
PutBlocks(q) == FALSE

\* mutant of AfterBatchFailure: the failure ends the loop (`break`)
AfterBatchFailureAborts == "stop"

\* where the loop goes after the except branch of a batch: `continue`
AfterBatchFailure == "next"

\* mutant of AfterBuild: the tasks are queued without waiting for the upsert
AfterBuildQueuesFirst == "enqueue"

\* what follows the building of the points and tasks: the upsert (line 295),
\* and only then the queueing (lines 299-301)
AfterBuild == "upsert"

\* lines 203-222: reset the metrics, start the worker thread, read the point count
StartRun(n, size, countRead) ==
    /\ fpc = "idle"
    /\ gpc = "unused"
    /\ run < MaxRuns
    /\ run' = run + 1
    /\ metrics' = ProcessingMetrics
    /\ upload_worker_active' = TRUE
    /\ wpc' = [ wpc EXCEPT ![run + 1] = "loop" ]
    /\ initial_points_count' = IF countRead THEN Cardinality(DOMAIN points) ELSE 0
    /\ global_doc_index' = 0
    /\ start_count' = Cardinality(DOMAIN points)
    /\ docs_total' = n
    /\ next_doc' = 1
    /\ batch_size' = size
    /\ batch_id' = 0
    /\ batch_log' = <<>>
    /\ enqueued' = <<>>
    /\ fpc' = "next"
    /\ UNCHANGED << rerank, svvars, batch_data, batch_points, upload_tasks, attempts, sent,
                    upsert_result, acked, wtask, wurl, points, upload_queue,
                    upload_results, upload_errors, srvars, clvars >>

\* batch_iterable: the next batch, or the end of the loop; the locals of the
\* previous iteration are gone
NextBatch ==
    /\ fpc = "next"
    /\ IF next_doc > docs_total
       THEN /\ fpc' = "stop"
            /\ batch_data' = <<>>
            /\ UNCHANGED next_doc
       ELSE LET len == IsliceLen(docs_total - next_doc + 1, batch_size)
            IN  /\ batch_data' = [ k \in 1 .. len |-> next_doc + k - 1 ]
                /\ next_doc' = next_doc + len
                /\ fpc' = "embed"
    /\ batch_points' = <<>>
    /\ upload_tasks' = <<>>
    /\ attempts' = 0
    /\ sent' = <<>>
    /\ upsert_result' = "none"
    /\ UNCHANGED << rerank, svvars, run, docs_total, batch_size, batch_id,
                    initial_points_count, global_doc_index, start_count,
                    batch_log, acked, enqueued, wkvars, shvars, srvars, clvars >>

\* the except branch (lines 308-313)
\* mutant of BatchFailed: the documents of the failed batch are counted as
\* processed
BatchFailedCountsDocs(embedded) ==
    /\ metrics' = [ metrics EXCEPT !.failed_batches = @ + 1,
                                    !.processed_docs = @ + Len(batch_data) ]
    /\ batch_id' = batch_id + 1
    /\ batch_log' = Append(batch_log,
                           [ docs |-> batch_data, embedded |-> embedded,
                             upserted |-> <<>>, ok |-> FALSE ])
    /\ fpc' = AfterBatchFailure

BatchFailed(embedded) ==
    /\ metrics' = [ metrics EXCEPT !.failed_batches = @ + 1 ]
    /\ batch_id' = batch_id + 1
    /\ batch_log' = Append(batch_log,
                           [ docs |-> batch_data, embedded |-> embedded,
                             upserted |-> <<>>, ok |-> FALSE ])
    /\ fpc' = AfterBatchFailure

\* lines 235-292: embed the batch and build its points and tasks
EmbedBatch(modelOK) ==
    /\ fpc = "embed"
    /\ LET emb == GetImageEmbeddings(run, batch_data)
       IN  IF modelOK /\ HasIntIndex(emb, 0)
           THEN /\ batch_points' =
                     [ k \in 1 .. Len(batch_data) |->
                         PointStruct(
                             PointIdOf(initial_points_count, global_doc_index, k - 1),
                             emb.items[k],
                             NewPayload(global_doc_index + (k - 1), batch_id)) ]
                /\ upload_tasks' =
                     [ k \in 1 .. Len(batch_data) |->
                         ImageProcessingTask(
                             PointIdOf(initial_points_count, global_doc_index, k - 1),
                             << run, batch_data[k] >>) ]
                /\ attempts' = 0
                /\ sent' = <<>>
                /\ upsert_result' = "none"
                /\ fpc' = AfterBuild
                /\ UNCHANGED << metrics, batch_id, batch_log >>
           ELSE /\ BatchFailed(IF modelOK THEN Len(batch_data) ELSE 0)
                /\ UNCHANGED << batch_points, upload_tasks, attempts, sent,
                                upsert_result >>
    /\ UNCHANGED << rerank, svvars, run, docs_total, next_doc, batch_size, batch_data,
                    initial_points_count, global_doc_index, start_count,
                    acked, enqueued, wkvars,
                    points, upload_queue, upload_results, upload_errors,
                    upload_worker_active, srvars, clvars >>

\* line 295 under stamina: one attempt of upsert_batch
UpsertAttempt(ok) ==
    /\ fpc = "upsert"
    /\ attempts' = attempts + 1
    /\ sent' = Append(sent, batch_points)
    /\ IF ok
       THEN /\ points' = UpsertInto(points, batch_points)
            /\ upsert_result' = "True"
            /\ metrics' = [ metrics EXCEPT !.successful_batches = @ + 1 ]
            /\ acked' = acked \cup { << run, batch_data[k] >> : k \in 1 .. Len(batch_data) }
            /\ fpc' = "enqueue"
            /\ UNCHANGED << batch_id, batch_log >>
       ELSE IF RetryUpsert(attempts + 1)
       THEN UNCHANGED << points, upsert_result, metrics, acked, fpc, batch_id, batch_log >>
       ELSE /\ upsert_result' = "raised"
            /\ BatchFailed(Len(batch_data))
            /\ UNCHANGED << points, acked >>
    /\ UNCHANGED << rerank, svvars, run, docs_total, next_doc, batch_size, batch_data,
                    batch_points, upload_tasks, initial_points_count,
                    global_doc_index, start_count, enqueued, wkvars, upload_queue, upload_results,
                    upload_errors, upload_worker_active, srvars, clvars >>

\* mutant of CountTask: the foreground also counts the task as completed
CountTaskAsCompleted(m) ==
    [ m EXCEPT !.total_upload_tasks = @ + 1, !.completed_uploads = @ + 1 ]

\* self.metrics.total_upload_tasks += 1 (line 301)
CountTask(m) == [ m EXCEPT !.total_upload_tasks = @ + 1 ]

\* lines 299-306: put the next task; after the last one update the counters
EnqueueTask ==
    /\ fpc = "enqueue"
    /\ upload_tasks # <<>>
    /\ ~ PutBlocks(upload_queue)
    /\ upload_queue' = Append(upload_queue, Head(upload_tasks))
    /\ enqueued' = Append(enqueued, Head(upload_tasks))
    /\ upload_tasks' = Tail(upload_tasks)
    /\ IF Tail(upload_tasks) = <<>>
       THEN /\ metrics' = [ CountTask(metrics) EXCEPT
                                !.processed_docs = @ + Len(batch_data) ]
            /\ global_doc_index' = global_doc_index + Len(batch_data)
            /\ batch_id' = batch_id + 1
            /\ batch_log' = Append(batch_log,
                                   [ docs |-> batch_data, embedded |-> Len(batch_data),
                                     upserted |-> batch_points, ok |-> TRUE ])
            /\ fpc' = "next"
       ELSE /\ metrics' = CountTask(metrics)
            /\ UNCHANGED << global_doc_index, batch_id, batch_log, fpc >>
    /\ UNCHANGED << rerank, svvars, run, docs_total, next_doc, batch_size, batch_data,
                    batch_points, attempts, sent, upsert_result,
                    initial_points_count, start_count, acked, wkvars,
                    points, upload_results,
                    upload_errors, upload_worker_active, srvars, clvars >>

\* line 316
StopWorker ==
    /\ fpc = "stop"
    /\ upload_worker_active' = FALSE
    /\ fpc' = "join"
    /\ UNCHANGED << rerank, svvars, run, docs_total, next_doc, batch_size, batch_id,
                    batch_data, batch_points, upload_tasks, attempts, sent,
                    upsert_result, initial_points_count, global_doc_index,
                    start_count, batch_log, acked, enqueued, wkvars, points, upload_queue, upload_results,
                    upload_errors, metrics, srvars, clvars >>

\* mutant of JoinMayTimeOut: join() without a timeout
JoinWaitsForWorker == FALSE

\* upload_thread.join(timeout=config.MINIO_UPLOAD_TIMEOUT): the wait is bounded
JoinMayTimeOut == TRUE

\* line 317: join(timeout=MINIO_UPLOAD_TIMEOUT) returns when the worker has
\* exited, or when the timeout expires
JoinWorker(timedOut) ==
    /\ fpc = "join"
    /\ (timedOut /\ JoinMayTimeOut) \/ wpc[run] = "exit"
    /\ fpc' = "idle"
    /\ UNCHANGED << rerank, svvars, run, docs_total, next_doc, batch_size, batch_id,
                    batch_data, batch_points, upload_tasks, attempts, sent,
                    upsert_result, initial_points_count, global_doc_index,
                    start_count, batch_log, acked, enqueued, wkvars, shvars, srvars, clvars >>

\* ------------------------------------- background: _background_upload_worker

\* mutant of ShouldRetry: one retry too many
ShouldRetryInclusive(task) == task.retries <= task.max_retries

\* `if task.retries < task.max_retries` (line 153)
ShouldRetry(task) == task.retries < task.max_retries

\* mutant of SetPayload: the payload is replaced instead of merged
SetPayloadOverwrite(coll, pid, url) ==
    IF pid \in DOMAIN coll
    THEN [ coll EXCEPT ![pid].payload = [ image_url |-> url, upload_pending |-> FALSE ] ]
    ELSE coll

\* set_payload(payload={"image_url": image_url, "upload_pending": False}, points=[id])
SetPayload(coll, pid, url) ==
    IF pid \in DOMAIN coll
    THEN [ coll EXCEPT ![pid].payload.image_url = url,
                       ![pid].payload.upload_pending = FALSE ]
    ELSE coll

\* a dict with key k set to v
DictSet(d, k, v) == [ x \in DOMAIN d \cup { k } |-> IF x = k THEN v ELSE d[x] ]

\* mutant of LoopCondition: the queue is not looked at
LoopConditionFlagOnly(active, q) == active

\* line 114: `while self.upload_worker_active or not self.upload_queue.empty()`
LoopCondition(active, q) == active \/ q # <<>>

\* line 114 and 118: the loop condition holds and get() returns a task
WorkerGet(w) ==
    /\ wpc[w] = "loop"
    /\ LoopCondition(upload_worker_active, upload_queue)
    /\ upload_queue # <<>>
    /\ wtask' = [ wtask EXCEPT ![w] = Head(upload_queue) ]
    /\ upload_queue' = Tail(upload_queue)
    /\ wpc' = [ wpc EXCEPT ![w] = "upload" ]
    /\ UNCHANGED << rerank, svvars, fgvars, wurl, points, upload_results, upload_errors,
                    upload_worker_active, metrics, srvars, clvars >>

\* line 114: the loop condition fails and the thread ends
WorkerExit(w) ==
    /\ wpc[w] = "loop"
    /\ ~ LoopCondition(upload_worker_active, upload_queue)
    /\ wpc' = [ wpc EXCEPT ![w] = "exit" ]
    /\ UNCHANGED << rerank, svvars, fgvars, wtask, wurl, shvars, srvars, clvars >>

\* lines 125-146: the image is encoded and uploaded; record the result
UploadSucceeds(w) ==
    /\ wpc[w] = "upload"
    /\ LET url == UrlOf(wtask[w].image_name)
       IN  /\ wurl' = [ wurl EXCEPT ![w] = url ]
           /\ upload_results' = DictSet(upload_results, wtask[w].point_id, url)
    /\ metrics' = [ metrics EXCEPT !.completed_uploads = @ + 1 ]
    /\ wpc' = [ wpc EXCEPT ![w] = "patch" ]
    /\ UNCHANGED << rerank, svvars, fgvars, wtask, points, upload_queue, upload_errors,
                    upload_worker_active, srvars, clvars >>

\* lines 151-160: encoding or upload raised
UploadFails(w) ==
    /\ wpc[w] = "upload"
    /\ IF ShouldRetry(wtask[w])
       THEN /\ upload_queue' =
                 Append(upload_queue, [ wtask[w] EXCEPT !.retries = @ + 1 ])
            /\ UNCHANGED << upload_errors, metrics >>
       ELSE /\ upload_errors' = DictSet(upload_errors, wtask[w].point_id, "error")
            /\ metrics' = [ metrics EXCEPT !.failed_uploads = @ + 1 ]
            /\ UNCHANGED upload_queue
    /\ wtask' = [ wtask EXCEPT ![w] = NoTask ]
    /\ wpc' = [ wpc EXCEPT ![w] = "loop" ]
    /\ UNCHANGED << rerank, svvars, fgvars, wurl, points, upload_results,
                    upload_worker_active, srvars, clvars >>

\* lines 149, 165-178: _update_point_with_image_url; an exception of
\* set_payload is swallowed
UpdatePoint(w, patched) ==
    /\ wpc[w] = "patch"
    /\ points' = IF patched
                 THEN SetPayload(points, IntOf(wtask[w].point_id), wurl[w])
                 ELSE points
    /\ wtask' = [ wtask EXCEPT ![w] = NoTask ]
    /\ wurl' = [ wurl EXCEPT ![w] = Null ]
    /\ wpc' = [ wpc EXCEPT ![w] = "loop" ]
    /\ UNCHANGED << rerank, svvars, fgvars, upload_queue, upload_results, upload_errors,
                    upload_worker_active, metrics, srvars, clvars >>

Foreground ==
    \/ /\ run = 0
       /\ \E n \in 0 .. MaxDocs, size \in 1 .. MaxBatchSize, countRead \in BOOLEAN :
             StartRun(n, size, countRead)
    \/ NextBatch
    \/ \E modelOK \in BOOLEAN : EmbedBatch(modelOK)
    \/ \E ok \in BOOLEAN : UpsertAttempt(ok)
    \/ EnqueueTask
    \/ StopWorker
    \/ \E timedOut \in BOOLEAN : JoinWorker(timedOut)

Worker(w) ==
    \/ WorkerGet(w)
    \/ WorkerExit(w)
    \/ UploadSucceeds(w)
    \/ UploadFails(w)
    \/ \E patched \in BOOLEAN : UpdatePoint(w, patched)

Next == Foreground \/ \E w \in Workers : Worker(w)

Spec == Init /\ [][Next]_vars

\* one index_documents call of at most MaxLiveDocs documents
ForegroundLive ==
    \/ /\ run = 0
       /\ \E n \in 0 .. MaxLiveDocs, size \in 1 .. MaxBatchSize, countRead \in BOOLEAN :
             StartRun(n, size, countRead)
    \/ NextBatch
    \/ \E modelOK \in BOOLEAN : EmbedBatch(modelOK)
    \/ \E ok \in BOOLEAN : UpsertAttempt(ok)
    \/ EnqueueTask
    \/ StopWorker
    \/ \E timedOut \in BOOLEAN : JoinWorker(timedOut)

NextLive == ForegroundLive \/ \E w \in Workers : Worker(w)

\* the foreground is the main thread of the process: it is scheduled, the
\* model and the index answer or raise, stamina gives up after its last
\* attempt; the worker thread is given no such assumption
SpecLive == Init /\ [][NextLive]_vars /\ WF_vars(ForegroundLive)

\* the worker thread is scheduled and every upload attempt returns (with a
\* URL or an exception); the foreground is given no such assumption
SpecDrain == Init /\ [][NextLive]_vars /\ \A w \in Workers : WF_vars(Worker(w))

\* ------------------------------------------------ get_images_from_results

\* mutant of PrefixSlice: max_images is ignored
PrefixSliceAll(seq, m) == seq

\* search_results.points[:max_images]
PrefixSlice(seq, m) ==
    IF m >= 0
    THEN SubSeq(seq, 1, Min(m, Len(seq)))
    ELSE SubSeq(seq, 1, IF Len(seq) + m > 0 THEN Len(seq) + m ELSE 0)

\* `point.payload and "image_url" in point.payload` and
\* `point.payload["image_url"] is not None`
HasImageUrl(point) ==
    /\ DOMAIN point.payload # {}
    /\ "image_url" \in DOMAIN point.payload
    /\ point.payload.image_url # Null

RECURSIVE CollectUrls(_, _)
\* the loop of lines 353-363 over the points still to visit
CollectUrls(todo, urls) ==
    IF todo = <<>>
    THEN urls
    ELSE CollectUrls(Tail(todo),
                     IF HasImageUrl(Head(todo))
                     THEN Append(urls, Head(todo).payload.image_url)
                     ELSE urls)

GetImagesFromResults(results, m) == CollectUrls(PrefixSlice(results, m), <<>>)

\* the payloads a result point can carry: none, one without the image_url
\* key, one still pending, one with a null url and no pending flag set, and
\* a resolved one
PayloadsOf(i) ==
    { <<>>,
      [ source |-> "unknown" ],
      NewPayload(i, 0),
      [ NewPayload(i, 0) EXCEPT !.upload_pending = FALSE ],
      [ NewPayload(i, 0) EXCEPT !.image_url = UrlOf(ImageName(i)),
                                !.upload_pending = FALSE ] }

\* search results of a given length: distinct points, any payloads
ResultsOfLen(n) ==
    { r \in [ 1 .. n -> UNION { { [ id |-> i, payload |-> p ] : p \in PayloadsOf(i) }
                                : i \in 1 .. n } ] :
        \A k \in 1 .. n : r[k].id = k }

InitSearch ==
    /\ rerank = FALSE
    /\ points = <<>>
    /\ upload_queue = <<>>
    /\ upload_results = <<>>
    /\ upload_errors = <<>>
    /\ upload_worker_active = FALSE
    /\ metrics = ProcessingMetrics
    /\ fpc = "idle"
    /\ run = 0
    /\ docs_total = 0
    /\ next_doc = 1
    /\ batch_size = 1
    /\ batch_id = 0
    /\ batch_data = <<>>
    /\ batch_points = <<>>
    /\ upload_tasks = <<>>
    /\ attempts = 0
    /\ sent = <<>>
    /\ upsert_result = "none"
    /\ initial_points_count = 0
    /\ global_doc_index = 0
    /\ start_count = 0
    /\ wpc = [ w \in Workers |-> "none" ]
    /\ wtask = [ w \in Workers |-> NoTask ]
    /\ wurl = [ w \in Workers |-> Null ]
    /\ batch_log = <<>>
    /\ acked = {}
    /\ enqueued = <<>>
    /\ \E n \in 0 .. MaxResults : search_results \in ResultsOfLen(n)
    /\ max_images = 0
    /\ image_urls = <<>>
    /\ gpc = "input"
    /\ NoProcess
    /\ NoServices

\* one call get_images_from_results(search_results, m)
GetImages(m) ==
    /\ gpc = "input"
    /\ max_images' = m
    /\ image_urls' = GetImagesFromResults(search_results, m)
    /\ gpc' = "returned"
    /\ UNCHANGED << rerank, svvars, fgvars, wkvars, shvars, search_results, clvars >>

NextSearch == \E m \in 0 .. MaxImages : GetImages(m)

SpecSearch == InitSearch /\ [][NextSearch]_vars

\* ------------------------------------------------ search and conversational answer

\* a query string is a sequence of characters; a blank and a letter suffice
Chars == { " ", "a" }
Queries == UNION { [ 1 .. n -> Chars ] : n \in 0 .. MaxQueryLen }

RECURSIVE LStrip(_)
LStrip(s) == IF s # <<>> /\ Head(s) = " " THEN LStrip(Tail(s)) ELSE s

RECURSIVE RStrip(_)
RStrip(s) == IF s # <<>> /\ s[Len(s)] = " " THEN RStrip(SubSeq(s, 1, Len(s) - 1)) ELSE s

\* str.strip()
Strip(s) == RStrip(LStrip(s))

\* mutant of ValidateQuery: the length is measured before stripping
ValidateQueryUnstripped(q) == q # <<>> /\ Strip(q) # <<>> /\ Len(q) >= 2

\* utils.validate_query
ValidateQuery(q) ==
    IF q = <<>> \/ Strip(q) = <<>>
    THEN FALSE
    ELSE IF Len(Strip(q)) < 2 THEN FALSE ELSE TRUE

\* what validate_query prints
ValidateMessage(q) ==
    IF q = <<>> \/ Strip(q) = <<>>
    THEN << "Error: Query cannot be empty" >>
    ELSE IF Len(Strip(q)) < 2
    THEN << "Error: Query must be at least 2 characters long" >>
    ELSE << >>

\* RetrievalPipeline.search: embed the query, take element 0 of the batch
\* (a KeyError on the dict the reranking option returns), search the index
PipelineSearch(modelOK, dbOK, res) ==
    IF ~ modelOK \/ rerank
    THEN [ raised |-> TRUE, calls |-> << "get_query_embedding" >>, points |-> << >> ]
    ELSE IF ~ dbOK
    THEN [ raised |-> TRUE, calls |-> << "get_query_embedding", "vector_db.search" >>,
           points |-> << >> ]
    ELSE [ raised |-> FALSE, calls |-> << "get_query_embedding", "vector_db.search" >>,
           points |-> res ]

\* the messages search_with_openai_response yields
NoRelevantMessage == << "No relevant images found for your query." >>
StillUploadingMessage(n) ==
    << "Found relevant documents but", n, "images are still uploading. Please try again in a moment." >>
CouldNotRetrieveMessage == << "Found relevant documents but couldn't retrieve images." >>
AnalysisErrorMessage == << "Error getting AI analysis" >>

\* `point.payload and point.payload.get("upload_pending", False)`
IsPendingPoint(point) ==
    /\ DOMAIN point.payload # {}
    /\ "upload_pending" \in DOMAIN point.payload
    /\ point.payload.upload_pending = TRUE

\* mutant of PendingCount: the pending flag is not consulted
PendingCountIgnored(results, m) == 0

\* lines 401-405: pending points among search_results.points[:max_images]
PendingCount(results, m) ==
    LET first == PrefixSlice(results, m)
    IN  Cardinality({ k \in 1 .. Len(first) : IsPendingPoint(first[k]) })

Part(type, body) == [ type |-> type, body |-> body ]

\* search_with_openai_response, drained to the end: the parts it yields, the
\* calls it makes, and whether an exception leaves the generator
SearchWithOpenaiResponse(handler, found, m, analyzeOK) ==
    IF handler = "none"
    THEN [ raised |-> TRUE, calls |-> << >>, parts |-> << >> ]
    ELSE IF found.raised
    THEN [ raised |-> TRUE, calls |-> found.calls, parts |-> << >> ]
    ELSE LET first == Part("results", found.points)
             urls == GetImagesFromResults(found.points, m)
         IN  IF found.points = << >>
             THEN [ raised |-> FALSE, calls |-> found.calls,
                    parts |-> << first, Part("openai_response", NoRelevantMessage) >> ]
             ELSE IF urls = << >>
             THEN [ raised |-> FALSE, calls |-> found.calls,
                    parts |-> << first,
                                 Part("openai_response",
                                      IF PendingCount(found.points, m) > 0
                                      THEN StillUploadingMessage(PendingCount(found.points, m))
                                      ELSE CouldNotRetrieveMessage) >> ]
             ELSE [ raised |-> FALSE,
                    calls |-> Append(found.calls, "analyze_images"),
                    parts |-> IF analyzeOK
                              THEN << first, Part("images", urls),
                                      Part("openai_chunk", << "chunk" >>) >>
                              ELSE << first,
                                      Part("openai_response", AnalysisErrorMessage) >> ]

\* one call of search_with_openai_response whose generator is drained; the
\* index returns search_results
Respond(handler, m, modelOK, dbOK, analyzeOK) ==
    /\ gpc = "input"
    /\ LET r == SearchWithOpenaiResponse(handler,
                                         PipelineSearch(modelOK, dbOK, search_results),
                                         m, analyzeOK)
       IN  /\ yielded' = r.parts
           /\ calls' = r.calls
           /\ returned' = IF r.raised THEN "raised" ELSE "exhausted"
    /\ openai_handler' = handler
    /\ max_images' = m
    /\ gpc' = "returned"
    /\ UNCHANGED << rerank, svvars, fgvars, wkvars, shvars, search_results, image_urls,
                    cli_mode, command, query, use_openai, cpc, minio_handler,
                    collection_exists, exit_code, out, cleared_run,
                    cleared_points, applied, status_seen, typed >>

NextAnswer ==
    \E handler \in { "none", "handler" }, m \in 0 .. MaxImages,
       modelOK \in BOOLEAN, dbOK \in BOOLEAN, analyzeOK \in BOOLEAN :
        Respond(handler, m, modelOK, dbOK, analyzeOK)

SpecAnswer == InitSearch /\ [][NextAnswer]_vars

\* ------------------------------------------------ clear, status and search

\* config.SEARCH_LIMIT
SEARCH_LIMIT == 3

\* the point ids a read of the collection sees
VisiblePoints == { i \in DOMAIN points : i \in applied }

\* client.upsert(..., wait=False) returns once the request is accepted
\* (qdrant.py line 111); the points become visible to reads at a later moment
ApplyUpserts ==
    /\ applied # DOMAIN points
    /\ applied' = DOMAIN points
    /\ UNCHANGED << rerank, svvars, fgvars, wkvars, shvars, srvars,
                    cli_mode, command, query, use_openai, cpc, openai_handler,
                    minio_handler, collection_exists, exit_code, returned, calls,
                    out, yielded, cleared_run, cleared_points, status_seen, typed >>

\* mutant of Searchable: points without an image are filtered out
SearchableResolvedOnly(coll, visible) ==
    { i \in visible : coll[i].payload.image_url # Null }

\* _standard_search: query_points carries no filter, every visible point is
\* a candidate
Searchable(coll, visible) == visible

\* the rankings of n of the candidates
RankingsOf(ids, n) ==
    { r \in [ 1 .. n -> ids ] : \A a, b \in 1 .. n : a # b => r[a] # r[b] }

\* what a search with limit SEARCH_LIMIT can return: the similarity order is
\* not modelled, so any ranking of the candidates
SearchResults(coll, visible) ==
    LET ids == Searchable(coll, visible)
        n == Min(SEARCH_LIMIT, Cardinality(ids))
    IN  { [ k \in 1 .. n |-> [ id |-> r[k], payload |-> coll[r[k]].payload ] ] :
            r \in RankingsOf(ids, n) }

\* RetrievalPipeline.search issued by any client of the index, at any moment
Search ==
    /\ collection_exists
    /\ search_results' \in SearchResults(points, VisiblePoints)
    /\ command' = "ask"
    /\ returned' = "True"
    /\ calls' = << "get_query_embedding", "vector_db.search" >>
    /\ UNCHANGED << rerank, svvars, fgvars, wkvars, shvars, max_images, image_urls, gpc,
                    cli_mode, query, use_openai, cpc, openai_handler,
                    minio_handler, collection_exists, exit_code, out, yielded,
                    cleared_run, cleared_points, applied, status_seen, typed >>

\* input(...).lower().strip() for the answers a user may type
LowerStrip(answer) ==
    CASE answer \in { "y", "Y", " y " } -> "y"
      [] answer \in { "yes", "YES" } -> "yes"
      [] answer \in { "n", "N" } -> "n"
      [] answer = "yeah" -> "yeah"
      [] OTHER -> ""

Answers == { "y", "Y", " y ", "yes", "YES", "n", "N", "yeah", "" }

\* mutant of Confirmed: an empty answer counts as consent
ConfirmedByDefault(answer) == LowerStrip(answer) \in { "y", "yes", "" }

\* `confirmation not in ["y", "yes"]` cancels (commands.py line 327)
Confirmed(answer) == LowerStrip(answer) \in { "y", "yes" }

\* mutant of AsksFirst: the prompt is shown in every mode
AsksFirstAlways(interactive) == TRUE

\* `if interactive:` (commands.py line 320): only then the user is asked
AsksFirst(interactive) == interactive

\* commands.clear(vector_db, interactive): the prompt, then
\* recreate_collection = delete_collection followed by create_collection
ClearCollection(interactive, answer, outcome) ==
    /\ command' = "clear-collection"
    /\ cleared_run' = run
    /\ cleared_points' = Cardinality(DOMAIN points)
    /\ typed' = (IF AsksFirst(interactive) THEN answer ELSE typed)
    /\ IF AsksFirst(interactive) /\ ~ Confirmed(answer)
       THEN /\ calls' = << "input" >>
            /\ out' = << "Operation cancelled" >>
            /\ returned' = "False"
            /\ UNCHANGED << points, applied, collection_exists >>
       ELSE /\ calls' = (IF AsksFirst(interactive) THEN << "input" >> ELSE << >>)
                        \o << "recreate_collection" >>
            /\ CASE outcome = "ok" ->
                      /\ points' = << >>
                      /\ applied' = {}
                      /\ collection_exists' = TRUE
                      /\ out' = << "Clearing collection...", "Collection cleared and recreated" >>
                      /\ returned' = "True"
                 [] outcome = "delete_raised" ->
                      /\ UNCHANGED << points, applied, collection_exists >>
                      /\ out' = << "Clearing collection...", "Error clearing collection" >>
                      /\ returned' = "False"
                 [] outcome = "create_raised" ->
                      /\ points' = << >>
                      /\ applied' = {}
                      /\ collection_exists' = FALSE
                      /\ out' = << "Clearing collection...", "Error clearing collection" >>
                      /\ returned' = "False"

\* the shell's clear-collection between two index_documents calls
SessionClear(answer, outcome) ==
    /\ fpc = "idle"
    /\ cpc = "prompt"
    /\ ClearCollection(TRUE, answer, outcome)
    /\ UNCHANGED << rerank, svvars, fgvars, wkvars, upload_queue, upload_results,
                    upload_errors, upload_worker_active, metrics, srvars,
                    cli_mode, query, use_openai, cpc, openai_handler,
                    minio_handler, exit_code, yielded, status_seen >>

\* RetrievalPipeline.get_upload_status
GetUploadStatus ==
    [ total |-> metrics.total_upload_tasks,
      completed |-> metrics.completed_uploads,
      failed |-> metrics.failed_uploads,
      pending |-> metrics.total_upload_tasks - metrics.completed_uploads
                  - metrics.failed_uploads,
      queue_size |-> Len(upload_queue) ]

\* what a status observation sees: the point count commands.status prints
\* and the upload status of the pipeline; with it, whether the command
\* before was a clear that completed, and what that clear found
Observation ==
    [ after_clear |-> command = "clear-collection" /\ returned = "True"
                      /\ cleared_run = run,
      cleared |-> cleared_points,
      points_count |-> Cardinality(VisiblePoints),
      upload_status |-> GetUploadStatus ]

\* the shell's show-status
ShowStatus ==
    /\ fpc = "idle"
    /\ cpc = "prompt"
    /\ collection_exists
    /\ status_seen' = << Observation >>
    /\ command' = "show-status"
    /\ returned' = "True"
    /\ calls' = << "get_collections", "get_collection" >>
    /\ out' = << "System Status" >>
    /\ UNCHANGED << rerank, svvars, fgvars, wkvars, shvars, srvars,
                    cli_mode, query, use_openai, cpc, openai_handler,
                    minio_handler, collection_exists, exit_code, yielded,
                    cleared_run, cleared_points, applied, typed >>

\* interactive_mode: one pipeline for the whole session
InitSession ==
    /\ rerank = FALSE
    /\ \E c \in 0 .. MaxInitial : points = [ i \in 0 .. c - 1 |-> StoredPoint(i) ]
    /\ upload_queue = <<>>
    /\ upload_results = <<>>
    /\ upload_errors = <<>>
    /\ upload_worker_active = FALSE
    /\ metrics = ProcessingMetrics
    /\ fpc = "idle"
    /\ run = 0
    /\ docs_total = 0
    /\ next_doc = 1
    /\ batch_size = 1
    /\ batch_id = 0
    /\ batch_data = <<>>
    /\ batch_points = <<>>
    /\ upload_tasks = <<>>
    /\ attempts = 0
    /\ sent = <<>>
    /\ upsert_result = "none"
    /\ initial_points_count = 0
    /\ global_doc_index = 0
    /\ start_count = 0
    /\ wpc = [ w \in Workers |-> "none" ]
    /\ wtask = [ w \in Workers |-> NoTask ]
    /\ wurl = [ w \in Workers |-> Null ]
    /\ batch_log = <<>>
    /\ acked = {}
    /\ enqueued = <<>>
    /\ search_results = <<>>
    /\ max_images = 0
    /\ image_urls = <<>>
    /\ gpc = "unused"
    /\ cli_mode = "interactive"
    /\ command = "none"
    /\ query = <<>>
    /\ use_openai = FALSE
    /\ cpc = "prompt"
    /\ openai_handler = "none"
    /\ minio_handler = "handler"
    /\ collection_exists = TRUE
    /\ exit_code = 0
    /\ returned = "none"
    /\ calls = <<>>
    /\ out = <<>>
    /\ yielded = <<>>
    /\ cleared_run = 0
    /\ cleared_points = 0
    /\ applied = DOMAIN points
    /\ status_seen = <<>>
    /\ typed = ""
    /\ NoServices

\* a session of upload commands: each one index_documents call on the same
\* pipeline object, with the workers these calls start
NextSession ==
    \/ \E n \in 1 .. MaxSessionDocs : StartRun(n, 1, TRUE)
    \/ NextBatch
    \/ EmbedBatch(TRUE)
    \/ UpsertAttempt(TRUE)
    \/ EnqueueTask
    \/ StopWorker
    \/ \E timedOut \in BOOLEAN : JoinWorker(timedOut)
    \/ \E w \in Workers : Worker(w)

SpecSession == InitSession /\ [][NextSession]_vars

\* a session of one upload command followed by clear-collection and
\* show-status commands, while searches arrive from any client
NextShell ==
    \/ /\ run = 0
       /\ \E n \in 1 .. MaxSessionDocs : StartRun(n, 1, TRUE)
    \/ NextBatch
    \/ EmbedBatch(TRUE)
    \/ UpsertAttempt(TRUE)
    \/ EnqueueTask
    \/ StopWorker
    \/ \E timedOut \in BOOLEAN : JoinWorker(timedOut)
    \/ \E w \in Workers :
          \/ WorkerGet(w)
          \/ WorkerExit(w)
          \/ UploadSucceeds(w)
          \/ \E patched \in BOOLEAN : UpdatePoint(w, patched)
    \/ ApplyUpserts
    \/ Search
    \/ \E answer \in { "y", "n" }, outcome \in { "ok", "delete_raised" } :
          SessionClear(answer, outcome)
    \/ ShowStatus

SpecShell == InitSession /\ [][NextShell]_vars

\* ------------------------------------------------ the command line process

\* max_images: int = 3, the default ask leaves to search_with_openai_response
DEFAULT_MAX_IMAGES == 3

Range(seq) == { seq[k] : k \in 1 .. Len(seq) }

\* the subcommands main_cli registers, and those that take a query
Subcommands ==
    { "ask", "analyze", "upload", "clear-collection", "clear", "show-status",
      "status", "interactive" }
QueryCommands == { "ask", "analyze" }

\* the command lines tried: nothing, an unknown word, each subcommand alone,
\* and each subcommand followed by one more argument
Argvs ==
    { << >>, << "bogus" >> }
        \cup { << c >> : c \in Subcommands }
        \cup { << c, q >> : c \in QueryCommands, q \in Queries }
        \cup { << c, << "a" >> >> : c \in { "clear", "show-status" } }

\* parser.parse_args(): a usage error (unknown subcommand, missing or
\* surplus positional argument) ends the process through parser.error
ParseArgsOf(argv) ==
    IF argv = << >>
    THEN [ ok |-> TRUE, command |-> "none", query |-> << >> ]
    ELSE IF argv[1] \notin Subcommands
    THEN [ ok |-> FALSE, command |-> "none", query |-> << >> ]
    ELSE IF argv[1] \in QueryCommands
    THEN IF Len(argv) = 2
         THEN [ ok |-> TRUE, command |-> argv[1], query |-> argv[2] ]
         ELSE [ ok |-> FALSE, command |-> "none", query |-> << >> ]
    ELSE IF Len(argv) = 1
         THEN [ ok |-> TRUE, command |-> argv[1], query |-> << >> ]
         ELSE [ ok |-> FALSE, command |-> "none", query |-> << >> ]

\* the exit status of argparse's parser.error
USAGE_ERROR == 2

\* mutant of ExitCode
ExitCodeAlwaysZero(success) == 0

\* sys.exit(0 if success else 1)
ExitCode(success) == IF success THEN 0 ELSE 1

\* main_cli up to the dispatch (cli.py lines 282-290)
ParseArgs(argv) ==
    /\ cpc = "start"
    /\ LET args == ParseArgsOf(argv)
       IN  /\ command' = args.command
           /\ query' = args.query
           /\ IF ~ args.ok
              THEN /\ cpc' = "exited"
                   /\ exit_code' = USAGE_ERROR
                   /\ out' = << "usage" >>
                   /\ cli_mode' = "cli"
              ELSE IF args.command = "none"
              THEN /\ cpc' = "returned"
                   /\ out' = << "help" >>
                   /\ UNCHANGED << exit_code, cli_mode >>
              ELSE /\ cpc' = "setup"
                   /\ cli_mode' = (IF args.command = "interactive"
                                   THEN "interactive" ELSE "cli")
                   /\ UNCHANGED << exit_code, out >>
    /\ UNCHANGED << rerank, svvars, fgvars, wkvars, shvars, srvars, use_openai,
                    openai_handler, minio_handler, collection_exists, returned,
                    calls, yielded, cleared_run, cleared_points, applied,
                    status_seen, typed >>

\* include_openai as main_cli (line 294) and interactive_mode (line 36) pass it
IncludeOpenai == cli_mode = "interactive" \/ command \in { "analyze", "show-status", "status" }

\* setup_pipeline: a failure of the model or index handler is fatal, one of
\* MinioHandler() or OpenAIHandler() leaves the handler None
SetupPipeline(fatal, minioOK, openaiOK) ==
    /\ cpc = "setup"
    /\ IF fatal
       THEN /\ out' = << "Error setting up pipeline" >>
            /\ exit_code' = 1
            /\ cpc' = "exited"
            /\ UNCHANGED << minio_handler, openai_handler >>
       ELSE /\ minio_handler' = (IF minioOK THEN "handler" ELSE "none")
            /\ openai_handler' = (IF IncludeOpenai /\ openaiOK THEN "handler" ELSE "none")
            /\ out' = << >>
            /\ cpc' = (IF cli_mode = "interactive" THEN "prompt" ELSE "run")
            /\ UNCHANGED exit_code
    /\ UNCHANGED << rerank, svvars, fgvars, wkvars, shvars, srvars, cli_mode, command,
                    query, use_openai, collection_exists, returned, calls,
                    yielded, cleared_run, cleared_points, applied, status_seen,
                    typed >>

\* what the services answer during one ask
Environments ==
    [ existsOK : BOOLEAN, setupOK : BOOLEAN, modelOK : BOOLEAN, dbOK : BOOLEAN,
      analyzeOK : BOOLEAN ]

\* mutant of TakesOpenaiPath: the handler is not looked at
TakesOpenaiPathAlways(useOpenai, handler) == useOpenai

\* `if use_openai and openai_handler:` (commands.py line 94)
TakesOpenaiPath(useOpenai, handler) == useOpenai /\ handler # "none"

\* the body of the try block of ask (lines 77-213): what it returns or
\* whether it raises, the calls it has made and what it has printed
AskBody(useOpenai, handler, res, env) ==
    IF ~ collection_exists \/ (env.existsOK /\ Cardinality(VisiblePoints) = 0)
    THEN [ raised |-> FALSE, returned |-> "False",
           calls |-> << "collection_exists" >>,
           out |-> << "Collection is empty or does not exist." >>, parts |-> << >> ]
    ELSE IF ~ env.existsOK
    THEN [ raised |-> TRUE, returned |-> "none",
           calls |-> << "collection_exists", "get_collection" >>,
           out |-> << >>, parts |-> << >> ]
    ELSE IF ~ env.setupOK
    THEN [ raised |-> TRUE, returned |-> "none",
           calls |-> << "collection_exists", "get_collection", "model_handler.setup" >>,
           out |-> << >>, parts |-> << >> ]
    ELSE LET before == << "collection_exists", "get_collection", "model_handler.setup" >>
             found == PipelineSearch(env.modelOK, env.dbOK, res)
         IN  IF TakesOpenaiPath(useOpenai, handler)
             THEN LET r == SearchWithOpenaiResponse(handler, found,
                                                    DEFAULT_MAX_IMAGES, env.analyzeOK)
                      called == Append(before, "search_with_openai_response")
                  IN  IF r.raised
                      THEN [ raised |-> TRUE, returned |-> "none",
                             calls |-> called \o r.calls, out |-> << >>,
                             parts |-> << >> ]
                      ELSE IF r.parts[1].body = << >>
                      THEN [ raised |-> FALSE, returned |-> "False",
                             calls |-> called \o found.calls,
                             out |-> << "No results found." >>,
                             parts |-> << r.parts[1] >> ]
                      ELSE [ raised |-> FALSE, returned |-> "True",
                             calls |-> called \o r.calls,
                             out |-> << "Response" >>, parts |-> r.parts ]
             ELSE IF found.raised
             THEN [ raised |-> TRUE, returned |-> "none",
                    calls |-> before \o found.calls, out |-> << >>, parts |-> << >> ]
             ELSE IF found.points = << >>
             THEN [ raised |-> FALSE, returned |-> "False",
                    calls |-> before \o found.calls,
                    out |-> << "No results found." >>, parts |-> << >> ]
             ELSE [ raised |-> FALSE, returned |-> "True",
                    calls |-> before \o found.calls,
                    out |-> << "Found results" >>, parts |-> << >> ]

\* mutant of Caught: the exception leaves the function
CaughtNothing(r) == r

\* `except Exception as e:` (lines 215-217): print the error, return False
Caught(r) ==
    IF r.raised
    THEN [ r EXCEPT !.raised = FALSE, !.returned = "False",
                    !.out = << "Error during search" >> ]
    ELSE r

\* commands.ask
Ask(q, useOpenai, handler, res, env) ==
    IF ~ ValidateQuery(q)
    THEN [ raised |-> FALSE, returned |-> "False", calls |-> << >>,
           out |-> ValidateMessage(q), parts |-> << >> ]
    ELSE Caught(AskBody(useOpenai, handler, res, env))

\* what the index can answer to a search: a ranking of its points, or nothing
Answerable == SearchResults(points, VisiblePoints) \cup { << >> }

\* the effect of one ask on the process
AskEffect(q, useOpenai, res, env) ==
    LET r == Ask(q, useOpenai, openai_handler, res, env)
    IN  /\ returned' = (IF r.raised THEN "raised" ELSE r.returned)
        /\ calls' = r.calls
        /\ out' = r.out
        /\ yielded' = r.parts
        /\ query' = q
        /\ use_openai' = useOpenai

\* main_cli: ask and analyze (lines 300-305)
CliAsk(res, env) ==
    /\ cpc = "run"
    /\ command \in QueryCommands
    /\ AskEffect(query, command = "analyze", res, env)
    /\ cpc' = "ran"
    /\ UNCHANGED << rerank, svvars, fgvars, wkvars, shvars, srvars, cli_mode, command,
                    openai_handler, minio_handler, collection_exists, exit_code,
                    cleared_run, cleared_points, applied, status_seen, typed >>

\* interactive_mode: a question typed at the prompt, in basic or in
\* conversational mode (lines 176-202)
SessionAsk(q, conversational, res, env) ==
    /\ cpc = "prompt"
    /\ fpc = "idle"
    /\ AskEffect(q, conversational, res, env)
    /\ command' = "ask"
    /\ UNCHANGED << rerank, svvars, fgvars, wkvars, shvars, srvars, cli_mode, cpc,
                    openai_handler, minio_handler, collection_exists, exit_code,
                    cleared_run, cleared_points, applied, status_seen, typed >>

\* main_cli: clear-collection and clear call clear(vector_db) (lines 309-311)
CliClear(outcome) ==
    /\ cpc = "run"
    /\ command \in { "clear-collection", "clear" }
    /\ ClearCollection(FALSE, "", outcome)
    /\ cpc' = "ran"
    /\ UNCHANGED << rerank, svvars, fgvars, wkvars, upload_queue, upload_results,
                    upload_errors, upload_worker_active, metrics, srvars,
                    cli_mode, query, use_openai, openai_handler, minio_handler,
                    exit_code, yielded, status_seen >>

\* main_cli: show-status and status (lines 312-314); status returns False
\* when the index does not answer
CliStatus(qdrantOK) ==
    /\ cpc = "run"
    /\ command \in { "show-status", "status" }
    /\ status_seen' = (IF qdrantOK /\ collection_exists
                       THEN << Observation >> ELSE << >>)
    /\ returned' = (IF qdrantOK THEN "True" ELSE "False")
    /\ calls' = << "get_collections" >>
    /\ out' = << "System Status" >>
    /\ cpc' = "ran"
    /\ UNCHANGED << rerank, svvars, fgvars, wkvars, shvars, srvars, cli_mode, command,
                    query, use_openai, openai_handler, minio_handler,
                    collection_exists, exit_code, yielded, cleared_run,
                    cleared_points, applied, typed >>

\* commands.upload up to the index_documents call: a bad path, a file
\* without images or a PDF that cannot be read return False, an exception
\* of load_dataset or pipeline.setup is caught and returns False
UploadOutcomes == { "bad_path", "no_images", "load_raised", "loaded" }

CliUploadBegin(outcome) ==
    /\ cpc = "run"
    /\ command = "upload"
    /\ calls' = (IF outcome = "bad_path" THEN << >> ELSE << "load" >>)
    /\ IF outcome = "loaded"
       THEN /\ cpc' = "indexing"
            /\ out' = << "Setting up pipeline and indexing documents..." >>
            /\ UNCHANGED returned
       ELSE /\ cpc' = "ran"
            /\ returned' = "False"
            /\ out' = << "Error" >>
    /\ UNCHANGED << rerank, svvars, fgvars, wkvars, shvars, srvars, cli_mode, command,
                    query, use_openai, openai_handler, minio_handler,
                    collection_exists, exit_code, yielded, cleared_run,
                    cleared_points, applied, status_seen, typed >>

\* commands.upload after index_documents has returned (lines 301-311): the
\* outcome of the batches is not looked at
CliUploadEnd ==
    /\ cpc = "indexing"
    /\ run = 1
    /\ fpc = "idle"
    /\ returned' = "True"
    /\ out' = << "Documents indexed successfully!" >>
    /\ cpc' = "ran"
    /\ UNCHANGED << rerank, svvars, fgvars, wkvars, shvars, srvars, cli_mode, command,
                    query, use_openai, openai_handler, minio_handler,
                    collection_exists, exit_code, calls, yielded, cleared_run,
                    cleared_points, applied, status_seen, typed >>

\* main_cli: sys.exit(0 if success else 1)
Exit ==
    /\ cpc = "ran"
    /\ exit_code' = ExitCode(returned = "True")
    /\ cpc' = "exited"
    /\ UNCHANGED << rerank, svvars, fgvars, wkvars, shvars, srvars, cli_mode, command,
                    query, use_openai, openai_handler, minio_handler,
                    collection_exists, returned, calls, out, yielded,
                    cleared_run, cleared_points, applied, status_seen, typed >>

\* a point stored by an earlier process whose upload has not completed
StoredPendingPoint(i) ==
    [ vector |-> EmbeddingOf(0, i), payload |-> NewPayload(i, 0) ]

\* a process that has just been started, and the index it will talk to
InitCli ==
    /\ rerank \in BOOLEAN
    /\ collection_exists \in BOOLEAN
    /\ \E c \in 0 .. MaxInitial :
          /\ collection_exists \/ c = 0
          /\ points \in [ 0 .. c - 1 -> UNION { { StoredPoint(i), StoredPendingPoint(i) } :
                                                  i \in 0 .. c - 1 } ]
          /\ \A i \in 0 .. c - 1 : points[i].vector = EmbeddingOf(0, i)
    /\ upload_queue = <<>>
    /\ upload_results = <<>>
    /\ upload_errors = <<>>
    /\ upload_worker_active = FALSE
    /\ metrics = ProcessingMetrics
    /\ fpc = "idle"
    /\ run = 0
    /\ docs_total = 0
    /\ next_doc = 1
    /\ batch_size = 1
    /\ batch_id = 0
    /\ batch_data = <<>>
    /\ batch_points = <<>>
    /\ upload_tasks = <<>>
    /\ attempts = 0
    /\ sent = <<>>
    /\ upsert_result = "none"
    /\ initial_points_count = 0
    /\ global_doc_index = 0
    /\ start_count = 0
    /\ wpc = [ w \in Workers |-> "none" ]
    /\ wtask = [ w \in Workers |-> NoTask ]
    /\ wurl = [ w \in Workers |-> Null ]
    /\ batch_log = <<>>
    /\ acked = {}
    /\ enqueued = <<>>
    /\ search_results = <<>>
    /\ max_images = 0
    /\ image_urls = <<>>
    /\ gpc = "unused"
    /\ cli_mode = "none"
    /\ command = "none"
    /\ query = <<>>
    /\ use_openai = FALSE
    /\ cpc = "start"
    /\ openai_handler = "none"
    /\ minio_handler = "none"
    /\ exit_code = 0
    /\ returned = "none"
    /\ calls = <<>>
    /\ out = <<>>
    /\ yielded = <<>>
    /\ cleared_run = 0
    /\ cleared_points = 0
    /\ applied = DOMAIN points
    /\ status_seen = <<>>
    /\ typed = ""
    /\ NoServices

\* one main_cli process: a single command, or an interactive session, of
\* which the first question or clear-collection typed is followed
NextCli ==
    \/ \E argv \in Argvs : ParseArgs(argv)
    \/ \E fatal \in BOOLEAN, minioOK \in BOOLEAN, openaiOK \in BOOLEAN :
          SetupPipeline(fatal, minioOK, openaiOK)
    \/ \E res \in Answerable, env \in Environments : CliAsk(res, env)
    \/ /\ command = "interactive"
       /\ \E q \in Queries, conversational \in BOOLEAN, res \in Answerable,
             env \in Environments : SessionAsk(q, conversational, res, env)
    \/ \E outcome \in { "ok", "delete_raised", "create_raised" } : CliClear(outcome)
    \/ /\ command = "interactive"
       /\ \E answer \in Answers, outcome \in { "ok", "delete_raised", "create_raised" } :
             SessionClear(answer, outcome)
    \/ \E qdrantOK \in BOOLEAN : CliStatus(qdrantOK)
    \/ \E outcome \in UploadOutcomes : CliUploadBegin(outcome)
    \/ /\ cpc = "indexing"
       /\ run = 0
       /\ \E n \in 0 .. MaxSessionDocs : StartRun(n, 1, TRUE)
    \/ NextBatch
    \/ \E modelOK \in BOOLEAN : EmbedBatch(modelOK)
    \/ \E ok \in BOOLEAN : UpsertAttempt(ok)
    \/ EnqueueTask
    \/ StopWorker
    \/ \E timedOut \in BOOLEAN : JoinWorker(timedOut)
    \/ \E w \in Workers : Worker(w)
    \/ ApplyUpserts
    \/ CliUploadEnd
    \/ Exit

SpecCli == InitCli /\ [][NextCli]_vars

\* ------------------------------------------------ packages/core: the services

\* `assigned_to: Optional[int] = None`: None, written as an id no user has
NoneId == 0

\* TaskStatus
TaskStatuses == { "pending", "in_progress", "completed", "cancelled" }

\* the statuses that TaskUpdate objects carry
UpdateStatuses == { "cancelled" }

\* datetime.now() as the operations read it
Times == { 1, 2 }

\* usernames handed to create_user, and their lengths
Usernames == { "al", "alice" }
UsernameLen == [ al |-> 2, alice |-> 5 ]

\* username: str = Field(..., min_length=3, max_length=50)
USERNAME_MIN_LENGTH == 3
UsernameValid(username) == UsernameLen[username] >= USERNAME_MIN_LENGTH

\* the ids that callers hand in: assigned and never assigned ones
UserIds == 0 .. MaxUsers + 1
TaskIds == 1 .. MaxTasks + 1

\* User(id=..., username=...): is_active defaults to True; created_at is
\* written once and read by no operation, and is left out
User(id, username) ==
    [ id |-> id, username |-> username, is_active |-> TRUE ]

\* TaskCreate(assigned_to=...)
TaskCreate(assigned) == [ assigned_to |-> assigned ]

\* Task(id=..., assigned_to=task_data.assigned_to, updated_at=now): status
\* defaults to PENDING; created_at is left out as for User
Task(id, task_data, t) ==
    [ id |-> id, status |-> "pending", assigned_to |-> task_data.assigned_to,
      updated_at |-> t ]

\* mutant of NextId: the id is not advanced
NextIdStays(n) == n

\* self._next_id += 1
NextId(n) == n + 1

\* dict.get(key): the stored object, if any
DictGet(d, k) == IF k \in DOMAIN d THEN << d[k] >> ELSE << >>

\* what an operation returned: True, False, None, an object (with its id)
\* or an exception
Returned(op, result, id) == [ op |-> op, result |-> result, id |-> id ]

\* UserService.create_user; User(...) raises when a field fails validation,
\* before anything is stored
CreateUser(username, emailValid) ==
    /\ user_next_id <= MaxUsers
    /\ IF UsernameValid(username) /\ emailValid
       THEN /\ users' = DictSet(users, user_next_id, User(user_next_id, username))
            /\ user_next_id' = NextId(user_next_id)
            /\ ret' = Returned("create_user", "object", user_next_id)
       ELSE /\ ret' = Returned("create_user", "raised", 0)
            /\ UNCHANGED << users, user_next_id >>
    /\ UNCHANGED << rerank, fgvars, wkvars, shvars, srvars, clvars, tasks,
                    task_next_id >>

\* UserService.get_user
GetUser(user_id) ==
    /\ ret' = (IF DictGet(users, user_id) = << >>
               THEN Returned("get_user", "None", 0)
               ELSE Returned("get_user", "object", DictGet(users, user_id)[1].id))
    /\ UNCHANGED << rerank, fgvars, wkvars, shvars, srvars, clvars, users,
                    user_next_id, tasks, task_next_id >>

\* mutant of Deactivated: the user is removed from the store
DeactivatedByRemoval(store, user_id) ==
    [ i \in DOMAIN store \ { user_id } |-> store[i] ]

\* user.is_active = False
Deactivated(store, user_id) == [ store EXCEPT ![user_id].is_active = FALSE ]

\* UserService.deactivate_user
DeactivateUser(user_id) ==
    /\ IF DictGet(users, user_id) # << >>
       THEN /\ users' = Deactivated(users, user_id)
            /\ ret' = Returned("deactivate_user", "True", 0)
       ELSE /\ ret' = Returned("deactivate_user", "False", 0)
            /\ UNCHANGED users
    /\ UNCHANGED << rerank, fgvars, wkvars, shvars, srvars, clvars,
                    user_next_id, tasks, task_next_id >>

\* TaskService.create_task
CreateTask(task_data, t) ==
    /\ task_next_id <= MaxTasks
    /\ tasks' = DictSet(tasks, task_next_id, Task(task_next_id, task_data, t))
    /\ task_next_id' = NextId(task_next_id)
    /\ ret' = Returned("create_task", "object", task_next_id)
    /\ UNCHANGED << rerank, fgvars, wkvars, shvars, srvars, clvars, users,
                    user_next_id >>

\* TaskService.get_task
GetTask(task_id) ==
    /\ ret' = (IF DictGet(tasks, task_id) = << >>
               THEN Returned("get_task", "None", 0)
               ELSE Returned("get_task", "object", DictGet(tasks, task_id)[1].id))
    /\ UNCHANGED << rerank, fgvars, wkvars, shvars, srvars, clvars, users,
                    user_next_id, tasks, task_next_id >>

\* the TaskUpdate objects handed to update_task: the fields that were set,
\* and their values
TaskUpdates ==
    UNION { { [ fields |-> f, status |-> s, assigned_to |-> a ] :
                s \in (IF "status" \in f THEN UpdateStatuses ELSE { "pending" }),
                a \in (IF "assigned_to" \in f THEN UserIds ELSE { NoneId }) } :
            f \in SUBSET { "status", "assigned_to" } }

\* task_data.dict(exclude_unset=True), then setattr for every item
SetAttrs(task, task_data) ==
    [ task EXCEPT
        !.status = IF "status" \in task_data.fields THEN task_data.status ELSE @,
        !.assigned_to = IF "assigned_to" \in task_data.fields
                        THEN task_data.assigned_to ELSE @ ]

\* TaskService.update_task
UpdateTask(task_id, task_data, t) ==
    /\ IF DictGet(tasks, task_id) = << >>
       THEN /\ ret' = Returned("update_task", "None", 0)
            /\ UNCHANGED tasks
       ELSE /\ tasks' = [ tasks EXCEPT
                            ![task_id] = [ SetAttrs(@, task_data) EXCEPT !.updated_at = t ] ]
            /\ ret' = Returned("update_task", "object", task_id)
    /\ UNCHANGED << rerank, fgvars, wkvars, shvars, srvars, clvars, users,
                    user_next_id, task_next_id >>

\* mutant of MayAssign: the user is not looked up
MayAssignAnyUser(task, user) == task # << >>

\* mutant of MayAssign: the user's is_active flag is not looked at
MayAssignInactive(task, user) == task # << >> /\ user # << >>

\* `if task and user and user.is_active:`
MayAssign(task, user) == task # << >> /\ user # << >> /\ user[1].is_active

\* TaskService.assign_task
AssignTask(task_id, user_id, t) ==
    /\ IF MayAssign(DictGet(tasks, task_id), DictGet(users, user_id))
       THEN /\ tasks' = [ tasks EXCEPT ![task_id].assigned_to = user_id,
                                       ![task_id].updated_at = t ]
            /\ ret' = Returned("assign_task", "True", 0)
       ELSE /\ ret' = Returned("assign_task", "False", 0)
            /\ UNCHANGED tasks
    /\ UNCHANGED << rerank, fgvars, wkvars, shvars, srvars, clvars, users,
                    user_next_id, task_next_id >>

\* mutant of Completed: only a pending task is completed
CompletedIfPending(task) ==
    IF task.status = "pending" THEN [ task EXCEPT !.status = "completed" ] ELSE task

\* task.status = TaskStatus.COMPLETED
Completed(task) == [ task EXCEPT !.status = "completed" ]

\* TaskService.complete_task
CompleteTask(task_id, t) ==
    /\ IF DictGet(tasks, task_id) # << >>
       THEN /\ tasks' = [ tasks EXCEPT ![task_id] = [ Completed(@) EXCEPT !.updated_at = t ] ]
            /\ ret' = Returned("complete_task", "True", 0)
       ELSE /\ ret' = Returned("complete_task", "False", 0)
            /\ UNCHANGED tasks
    /\ UNCHANGED << rerank, fgvars, wkvars, shvars, srvars, clvars, users,
                    user_next_id, task_next_id >>

\* UserService() and TaskService(user_service) just constructed, beside a
\* pipeline that is not used
InitServices ==
    /\ rerank = FALSE
    /\ points = << >>
    /\ upload_queue = <<>>
    /\ upload_results = <<>>
    /\ upload_errors = <<>>
    /\ upload_worker_active = FALSE
    /\ metrics = ProcessingMetrics
    /\ fpc = "idle"
    /\ run = 0
    /\ docs_total = 0
    /\ next_doc = 1
    /\ batch_size = 1
    /\ batch_id = 0
    /\ batch_data = <<>>
    /\ batch_points = <<>>
    /\ upload_tasks = <<>>
    /\ attempts = 0
    /\ sent = <<>>
    /\ upsert_result = "none"
    /\ initial_points_count = 0
    /\ global_doc_index = 0
    /\ start_count = 0
    /\ wpc = [ w \in Workers |-> "none" ]
    /\ wtask = [ w \in Workers |-> NoTask ]
    /\ wurl = [ w \in Workers |-> Null ]
    /\ batch_log = <<>>
    /\ acked = {}
    /\ enqueued = <<>>
    /\ search_results = <<>>
    /\ max_images = 0
    /\ image_urls = <<>>
    /\ gpc = "unused"
    /\ NoProcess
    /\ NoServices

NextServices ==
    \/ \E username \in Usernames, emailValid \in BOOLEAN :
          CreateUser(username, emailValid)
    \/ \E user_id \in UserIds : GetUser(user_id)
    \/ \E user_id \in UserIds : DeactivateUser(user_id)
    \/ \E assigned \in UserIds, t \in Times : CreateTask(TaskCreate(assigned), t)
    \/ \E task_id \in TaskIds : GetTask(task_id)
    \/ \E task_id \in TaskIds, task_data \in TaskUpdates, t \in Times :
          UpdateTask(task_id, task_data, t)
    \/ \E task_id \in TaskIds, user_id \in UserIds, t \in Times :
          AssignTask(task_id, user_id, t)
    \/ \E task_id \in TaskIds, t \in Times : CompleteTask(task_id, t)

SpecServices == InitServices /\ [][NextServices]_vars

\* ================================================================ properties

RunStarted == run = 1
RunDone == RunStarted /\ fpc = "idle"
LoopDone == RunStarted /\ fpc \in { "stop", "join", "idle" }

\* ceil(n / size)
NumBatches(n, size) == (n + size - 1) \div size

\* the tasks a worker currently holds
Holding(w) == wpc[w] \in { "upload", "patch" }

\* the document of task t is in the collection under the task's point id,
\* put there by an upsert_batch call that returned True
IsUpserted(t) ==
    /\ t.pil_image \in acked
    /\ IntOf(t.point_id) \in DOMAIN points
    /\ points[IntOf(t.point_id)].vector = EmbeddingOf(t.pil_image[1], t.pil_image[2])

\* a batch of the log failed in embedding or in upsert
FailedEntries == { k \in 1 .. Len(batch_log) : ~ batch_log[k].ok }
DocsOf(entry) == { << run, entry.docs[k] >> : k \in 1 .. Len(entry.docs) }

\* C1: every upload task that is on the queue or in the hands of the worker,
\* and every task with a recorded outcome, belongs to a document whose batch
\* upsert has already returned successfully (the point is in the collection);
\* no task was ever enqueued for a document of a batch that failed.
C1_UpsertBeforeUpload ==
    /\ \A k \in 1 .. Len(upload_queue) : IsUpserted(upload_queue[k])
    /\ \A w \in Workers : Holding(w) => IsUpserted(wtask[w])
    /\ \A k \in 1 .. Len(enqueued) : IsUpserted(enqueued[k])
    /\ \A key \in DOMAIN upload_results \cup DOMAIN upload_errors :
          /\ IntOf(key) \in DOMAIN points
          /\ \E k \in 1 .. Len(enqueued) : enqueued[k].point_id = key
    /\ \A f \in FailedEntries : \A k \in 1 .. Len(enqueued) :
          enqueued[k].pil_image \notin DocsOf(batch_log[f])

\* C1 witness: the worker is uploading the image of an upserted document in a
\* run in which an earlier batch failed in upsert
C1_Witness ==
    /\ \E w \in Workers : wpc[w] = "upload" /\ wtask[w].pil_image \in acked
    /\ \E f \in FailedEntries : batch_log[f].embedded > 0

\* a step in which the current batch fails (embedding, shape or upsert)
BatchFailsStep ==
    \/ fpc = "embed" /\ fpc' \notin { "embed", "upsert" }
    \/ fpc = "upsert" /\ fpc' \notin { "upsert", "enqueue" }

\* C2: a failing batch is skipped (nothing upserted, nothing enqueued, the
\* running document index unchanged), failed_batches grows by exactly one,
\* the loop goes on with the next batch, and when the loop is over every
\* batch of the input has been consumed.
C2_FailedBatchSkipped ==
    /\ [][ BatchFailsStep =>
             /\ metrics'.failed_batches = metrics.failed_batches + 1
             /\ metrics'.successful_batches = metrics.successful_batches
             /\ fpc' = "next"
             /\ points' = points
             /\ upload_queue' = upload_queue
             /\ enqueued' = enqueued
             /\ global_doc_index' = global_doc_index
             /\ next_doc' = next_doc ]_vars
    /\ [][ metrics'.failed_batches # metrics.failed_batches =>
             BatchFailsStep \/ fpc = "idle" ]_vars
    /\ [](LoopDone =>
             /\ next_doc = docs_total + 1
             /\ metrics.successful_batches + metrics.failed_batches
                  = NumBatches(docs_total, batch_size)
             /\ Len(batch_log) = NumBatches(docs_total, batch_size))

\* C2 witness: the call has returned, a batch failed and a later batch of the
\* same call was upserted
C2_Witness ==
    /\ RunDone
    /\ \E f \in FailedEntries : \E k \in f + 1 .. Len(batch_log) : batch_log[k].ok

\* what the attempts of the current upsert_batch call look like: at most
\* three, every one sending the full batch, none after a success, and a
\* failure only after the third
UpsertAttemptsOk ==
    /\ attempts <= UPSERT_ATTEMPTS
    /\ Len(sent) = attempts
    /\ \A k \in 1 .. Len(sent) : sent[k] = batch_points
    /\ fpc = "upsert" => upsert_result = "none" /\ attempts < UPSERT_ATTEMPTS
    /\ fpc = "enqueue" => upsert_result = "True"
    /\ upsert_result = "True" => attempts \in 1 .. UPSERT_ATTEMPTS
    /\ upsert_result = "raised" => attempts = UPSERT_ATTEMPTS

\* C3 as claimed: three attempts at most, each with the full batch, and a
\* persistent failure is handed to the caller as a returned failure result,
\* never as an exception leaving upsert_batch.
C3_AsClaimed == UpsertAttemptsOk /\ upsert_result # "raised"

\* C3 as amended: when every attempt raises, upsert_batch makes exactly three
\* attempts, each re-sending the full batch, and then re-raises the exception
\* to index_documents, whose except branch counts the batch as failed and goes
\* on; when an attempt succeeds no further attempt is made and True is returned.
C3_RetryThenRaise ==
    /\ []UpsertAttemptsOk
    /\ [][ attempts' = attempts + 1 => upsert_result = "none" /\ fpc = "upsert" ]_vars
    /\ [][ upsert_result = "none" /\ upsert_result' = "raised" =>
             /\ attempts = UPSERT_ATTEMPTS - 1
             /\ metrics'.failed_batches = metrics.failed_batches + 1
             /\ fpc' = "next" ]_vars
    /\ [][ upsert_result = "none" /\ upsert_result' = "True" =>
             /\ points' = UpsertInto(points, batch_points)
             /\ fpc' = "enqueue" ]_vars

\* C3 witness: an upsert_batch call has ended by raising after its third attempt
C3_Witness ==
    /\ upsert_result = "raised"
    /\ attempts = UPSERT_ATTEMPTS
    /\ fpc = "next"
    /\ metrics.failed_batches >= 1

\* the tasks on the queue and in the hands of the workers
LiveTasks ==
    { upload_queue[k] : k \in 1 .. Len(upload_queue) }
        \cup { wtask[w] : w \in { x \in Workers : Holding(x) } }

\* worker w handles a failed upload in this step
UploadFailsStep(w) == wpc[w] = "upload" /\ wpc'[w] = "loop"

\* C4: a task is re-enqueued on failure while it has made fewer than
\* MINIO_UPLOAD_RETRY_ATTEMPTS retries, which leaves failed_uploads alone; the
\* failure after the last retry records the task in upload_errors and adds
\* exactly one to failed_uploads; failed_uploads changes in no other way, so
\* it equals the number of exhausted tasks.
C4_BoundedRetryOneFailure ==
    /\ [](/\ \A t \in LiveTasks :
                /\ t.retries \in 0 .. MINIO_UPLOAD_RETRY_ATTEMPTS
                /\ t.max_retries = MINIO_UPLOAD_RETRY_ATTEMPTS
                /\ t.point_id \notin DOMAIN upload_errors
          /\ metrics.failed_uploads = Cardinality(DOMAIN upload_errors))
    /\ [][ \A w \in Workers : UploadFailsStep(w) =>
             IF wtask[w].retries < MINIO_UPLOAD_RETRY_ATTEMPTS
             THEN /\ metrics'.failed_uploads = metrics.failed_uploads
                  /\ upload_errors' = upload_errors
                  /\ upload_queue' =
                       Append(upload_queue,
                              [ wtask[w] EXCEPT !.retries = wtask[w].retries + 1 ])
             ELSE /\ metrics'.failed_uploads = metrics.failed_uploads + 1
                  /\ wtask[w].point_id \in DOMAIN upload_errors'
                  /\ upload_queue' = upload_queue ]_vars
    /\ [][ metrics'.failed_uploads # metrics.failed_uploads =>
             \E w \in Workers :
                /\ UploadFailsStep(w)
                /\ wtask[w].retries = MINIO_UPLOAD_RETRY_ATTEMPTS ]_vars

\* C4 witness: one task is exhausted and recorded, another one was retried
\* and then uploaded
C4_Witness ==
    /\ metrics.failed_uploads = 1
    /\ Cardinality(DOMAIN upload_errors) = 1
    /\ metrics.completed_uploads >= 1

\* C5: inside the batch loop the foreground thread always has its next step
\* available, whatever the worker is doing and however long the queue is.
C5_ForegroundNeverWaits ==
    (RunStarted /\ fpc \in { "next", "embed", "upsert", "enqueue" })
        => ENABLED Foreground

\* C5 witness: the loop has finished with every batch upserted and all tasks
\* queued while the worker still sits in its first upload and nothing has
\* completed or failed
C5_Witness ==
    /\ LoopDone
    /\ docs_total = MaxDocs
    /\ metrics.successful_batches = NumBatches(docs_total, batch_size)
    /\ metrics.total_upload_tasks = docs_total
    /\ metrics.completed_uploads = 0
    /\ metrics.failed_uploads = 0
    /\ \E w \in Workers : wpc[w] = "upload" /\ wtask[w].retries = 0

\* C6 as claimed, in the configuration without the reranking optimisation:
\* for every batch, the number of points upserted equals the number of its
\* documents that were embedded.
C6_AsClaimed ==
    ~ rerank =>
        \A k \in 1 .. Len(batch_log) :
            Len(batch_log[k].upserted) = batch_log[k].embedded

\* C6 as amended: for every batch whose upsert_batch call succeeded, one
\* point per document of the batch is in the collection, under the identifier
\* built for it and with that document's embedding, whatever happens to the
\* batch's uploads.
C6_UpsertedEqualsEmbedded ==
    \A k \in 1 .. Len(batch_log) :
        LET e == batch_log[k]
        IN  e.ok =>
                 /\ e.embedded = Len(e.docs)
                 /\ Len(e.upserted) = e.embedded
                 /\ \A j \in 1 .. Len(e.docs) :
                       /\ e.upserted[j].id \in DOMAIN points
                       /\ points[e.upserted[j].id].vector = EmbeddingOf(run, e.docs[j])
                 /\ \A i, j \in 1 .. Len(e.docs) :
                       i # j => e.upserted[i].id # e.upserted[j].id

\* C6 witness: a batch of two documents was upserted, the upload of one of
\* them has failed for good, and another batch of the call failed in upsert
C6_Witness ==
    /\ \E k \in 1 .. Len(batch_log) :
          /\ batch_log[k].ok
          /\ Len(batch_log[k].docs) = 2
          /\ \E j \in 1 .. 2 :
                StrOf(batch_log[k].upserted[j].id) \in DOMAIN upload_errors
    /\ \E f \in FailedEntries : batch_log[f].embedded > 0

\* index_documents has returned, no batch failed and the point count read at
\* its start was the collection's
NoFailureRunDone ==
    RunDone /\ metrics.failed_batches = 0 /\ initial_points_count = start_count

\* C7: after a call without failures over N documents with batch size B the
\* batches were ceil(N/B) consecutive slices of the input, all of size B but
\* possibly the last; the collection holds the c points it had plus one per
\* document, document d under identifier c + d - 1; and the N tasks were
\* enqueued in document order, one per point.
C7_NoFailureRun ==
    NoFailureRunDone =>
        LET N == docs_total
            B == batch_size
            c == start_count
            nb == NumBatches(N, B)
        IN  /\ Len(batch_log) = nb
            /\ \A k \in 1 .. Len(batch_log) :
                  batch_log[k].docs =
                      [ j \in 1 .. (IF k < nb THEN B ELSE N - B * (nb - 1)) |->
                          B * (k - 1) + j ]
            /\ DOMAIN points = 0 .. c + N - 1
            /\ \A i \in 0 .. c - 1 : points[i] = StoredPoint(i)
            /\ \A d \in 1 .. N :
                  /\ points[c + d - 1].vector = EmbeddingOf(run, d)
                  /\ points[c + d - 1].payload.dataset_index = d - 1
            /\ Len(enqueued) = N
            /\ \A d \in 1 .. Len(enqueued) :
                  /\ enqueued[d].point_id = StrOf(c + d - 1)
                  /\ enqueued[d].pil_image = << run, d >>
            /\ metrics.total_upload_tasks = N
            /\ metrics.processed_docs = N

\* C7 witness: three documents in batches of two (2, 1) on a collection that
\* already held a point
C7_Witness ==
    /\ NoFailureRunDone
    /\ docs_total = 3
    /\ batch_size = 2
    /\ start_count = 1

\* the payload of the point a recorded key names
PayloadOfKey(key) == points[IntOf(key)].payload

\* C8 as claimed: once the worker has recorded an upload as completed and is
\* through with the task, the point carries the returned URL and is no longer
\* pending.
C8_AsClaimed ==
    \A key \in DOMAIN upload_results :
        (\A w \in Workers : ~ (wpc[w] = "patch" /\ wtask[w].point_id = key)) =>
            /\ PayloadOfKey(key).image_url = upload_results[key]
            /\ PayloadOfKey(key).upload_pending = FALSE

\* C8 as amended: after recording an upload as completed the worker issues
\* one payload patch for the task's point id with the recorded URL; if the
\* patch is applied the point gets image_url = URL and upload_pending = false
\* with its vector, its other payload fields and all other points unchanged;
\* if the patch call raises, the exception is swallowed and the point stays
\* as it was (null URL, pending) although the upload counts as completed.
C8_PatchAfterRecord ==
    /\ [](\A w \in Workers : wpc[w] = "patch" =>
             /\ wtask[w].point_id \in DOMAIN upload_results
             /\ upload_results[wtask[w].point_id] = wurl[w]
             /\ wurl[w] = UrlOf(wtask[w].image_name))
    /\ [](\A key \in DOMAIN upload_results :
             \/ /\ PayloadOfKey(key).image_url = upload_results[key]
                /\ PayloadOfKey(key).upload_pending = FALSE
             \/ /\ PayloadOfKey(key).image_url = Null
                /\ PayloadOfKey(key).upload_pending = TRUE)
    /\ [][ \A w \in Workers : (wpc[w] = "patch" /\ wpc'[w] = "loop") =>
             LET pid == IntOf(wtask[w].point_id)
             IN  \/ points' = points
                 \/ /\ DOMAIN points' = DOMAIN points
                    /\ \A i \in DOMAIN points \ { pid } : points'[i] = points[i]
                    /\ points'[pid].vector = points[pid].vector
                    /\ DOMAIN points'[pid].payload = DOMAIN points[pid].payload
                    /\ \A f \in DOMAIN points[pid].payload
                                   \ { "image_url", "upload_pending" } :
                          points'[pid].payload[f] = points[pid].payload[f]
                    /\ points'[pid].payload.image_url = wurl[w]
                    /\ points'[pid].payload.upload_pending = FALSE ]_vars
    /\ [][ points' # points =>
             \/ fpc = "upsert"
             \/ \E w \in Workers : wpc[w] = "patch" /\ wpc'[w] = "loop" ]_vars

\* C8 witness: a completed upload whose patch was applied, and another one
\* whose patch was lost
C8_Witness ==
    /\ \A w \in Workers : ~ Holding(w)
    /\ wpc[1] = "loop"
    /\ \E key \in DOMAIN upload_results :
          /\ PayloadOfKey(key).image_url = upload_results[key]
          /\ PayloadOfKey(key).upload_pending = FALSE
    /\ \E key \in DOMAIN upload_results : PayloadOfKey(key).image_url = Null

\* C9 as claimed: a point whose upload is recorded as a permanent failure has
\* a null image_url and is not flagged as pending.
C9_AsClaimed ==
    \A key \in DOMAIN upload_errors :
        /\ PayloadOfKey(key).image_url = Null
        /\ PayloadOfKey(key).upload_pending = FALSE

\* a result point with a resolved image
Resolved(point) ==
    /\ "image_url" \in DOMAIN point.payload
    /\ point.payload.image_url # Null

\* a result point whose upload is pending
Pending(point) ==
    /\ "upload_pending" \in DOMAIN point.payload
    /\ point.payload.upload_pending
    /\ point.payload.image_url = Null

\* C10: the returned list is the image_url of every point among the first
\* max_images results that has one, in result order, and nothing else; it has
\* no null entry, and it is empty when all points are pending.
C10_ImagesFromResults ==
    gpc = "returned" =>
        LET idx == { k \in 1 .. Min(max_images, Len(search_results)) :
                        Resolved(search_results[k]) }
            rank(k) == Cardinality({ i \in idx : i <= k })
        IN  /\ Len(image_urls) = Cardinality(idx)
            /\ \A k \in idx : image_urls[rank(k)] = search_results[k].payload.image_url
            /\ \A j \in 1 .. Len(image_urls) : image_urls[j] # Null
            /\ (\A k \in 1 .. Len(search_results) : Pending(search_results[k]))
                  => image_urls = <<>>

\* C10 witness: three results, the first pending, the others resolved, and
\* max_images = 2: only the second point's URL is returned
C10_Witness ==
    /\ gpc = "returned"
    /\ Len(search_results) = 3
    /\ max_images = 2
    /\ Pending(search_results[1])
    /\ Resolved(search_results[2])
    /\ Resolved(search_results[3])
    /\ image_urls = << search_results[2].payload.image_url >>

\* ---------------------------------------------------------------- C11
\* the last part a drained search_with_openai_response yielded
LastPart == yielded[Len(yielded)]

\* C11: when search_with_openai_response finds points of which none of the
\* first max_images has an image_url and at least one is pending, its final
\* message is the "still uploading" one; when it finds no points the final
\* message is the "no relevant images" one, a different message; in neither
\* case analyze_images is called.
C11_PendingReportedDistinctly ==
    (gpc = "returned" /\ returned = "exhausted") =>
        /\ (/\ search_results # << >>
            /\ GetImagesFromResults(search_results, max_images) = << >>
            /\ \E k \in 1 .. Len(PrefixSlice(search_results, max_images)) :
                   IsPendingPoint(search_results[k]))
           => /\ Len(yielded) = 2
              /\ LastPart = Part("openai_response",
                                 StillUploadingMessage(PendingCount(search_results, max_images)))
              /\ LastPart.body # NoRelevantMessage
              /\ \A k \in 1 .. Len(calls) : calls[k] # "analyze_images"
        /\ search_results = << >>
           => /\ Len(yielded) = 2
              /\ LastPart = Part("openai_response", NoRelevantMessage)
              /\ \A k \in 1 .. Len(calls) : calls[k] # "analyze_images"

\* three result points, all pending, with max_images 3: "3 images are still
\* uploading"
C11_Witness ==
    /\ gpc = "returned"
    /\ returned = "exhausted"
    /\ Len(search_results) = 3
    /\ max_images = 3
    /\ \A k \in 1 .. 3 : IsPendingPoint(search_results[k])
    /\ LastPart.body = StillUploadingMessage(3)

\* ---------------------------------------------------------------- C12
\* upsert_batch has just returned True for the current batch
JustUpserted == fpc = "enqueue" /\ upsert_result = "True"
BatchIds == { batch_points[k].id : k \in 1 .. Len(batch_points) }
IdsOf(results) == { results[k].id : k \in 1 .. Len(results) }

\* C12: once upsert_batch has returned True the points of the batch are
\* stored in the collection with image_url = null; the index makes them
\* visible without any upload step (the upsert is sent with wait=False, so
\* this is a step of the index after the call has returned); and a search
\* does not filter on the image state: it returns every visible point,
\* pending or not, while they fit the search limit.
C12_SearchableWhilePending ==
    /\ JustUpserted => BatchIds \subseteq DOMAIN points
    /\ applied # DOMAIN points => ENABLED ApplyUpserts
    /\ Cardinality(VisiblePoints) <= SEARCH_LIMIT =>
          \A r \in SearchResults(points, VisiblePoints) : IdsOf(r) = VisiblePoints

\* a search made while the tasks of the batch are not even queued returns the
\* new point, whose image_url is still null
C12_Witness ==
    /\ JustUpserted
    /\ enqueued = << >>
    /\ upload_results = << >>
    /\ command = "ask"
    /\ BatchIds # {}
    /\ BatchIds \subseteq IdsOf(search_results)
    /\ \A k \in 1 .. Len(search_results) :
          search_results[k].id \in BatchIds =>
              /\ search_results[k].payload.image_url = Null
              /\ search_results[k].payload.upload_pending = TRUE

\* ---------------------------------------------------------------- C13
\* the tasks of the current call whose upload has not been recorded
Unfinished == { k \in 1 .. Len(enqueued) : enqueued[k].point_id \notin DOMAIN upload_results }

WorkerStep == \E w \in Workers : wpc[w] \in { "loop", "upload", "patch" } /\ wpc'[w] # wpc[w]
ForegroundStep == fpc' # fpc \/ upload_tasks' # upload_tasks \/ attempts' # attempts

\* C14 as stated: every change of upload_results, upload_errors or of the
\* total/completed/failed upload counters is made by a worker step.
C14_AsClaimed ==
    [][ (\/ upload_results' # upload_results
         \/ upload_errors' # upload_errors
         \/ metrics'.total_upload_tasks # metrics.total_upload_tasks
         \/ metrics'.completed_uploads # metrics.completed_uploads
         \/ metrics'.failed_uploads # metrics.failed_uploads)
        => ~ ForegroundStep ]_vars

\* C14 (amended): upload_results and upload_errors are written by worker
\* steps only and never shrink; completed_uploads and failed_uploads are
\* incremented by worker steps only; the foreground writes the ledger in two
\* places: it replaces the metrics by fresh ones when a call starts and it
\* adds one to total_upload_tasks for each task it queues.
C14_LedgerWriters ==
    [][ /\ (upload_results' # upload_results \/ upload_errors' # upload_errors)
           => /\ WorkerStep /\ ~ ForegroundStep
              /\ DOMAIN upload_results \subseteq DOMAIN upload_results'
              /\ DOMAIN upload_errors \subseteq DOMAIN upload_errors'
        /\ (\/ metrics'.completed_uploads # metrics.completed_uploads
            \/ metrics'.failed_uploads # metrics.failed_uploads)
           => \/ /\ WorkerStep /\ ~ ForegroundStep
                 /\ metrics'.completed_uploads + metrics'.failed_uploads
                      = metrics.completed_uploads + metrics.failed_uploads + 1
              \/ /\ run' = run + 1
                 /\ metrics' = ProcessingMetrics
        /\ metrics'.total_upload_tasks # metrics.total_upload_tasks
           => \/ /\ fpc = "enqueue" /\ ~ WorkerStep
                 /\ metrics'.total_upload_tasks = metrics.total_upload_tasks + 1
              \/ /\ run' = run + 1
                 /\ metrics' = ProcessingMetrics ]_vars

\* the second call has reset the counters, then the worker of the first call
\* completed a task of the first call: more completed than total
C14_Witness ==
    /\ run = 2
    /\ metrics.completed_uploads > metrics.total_upload_tasks
    /\ DOMAIN upload_results # {}

\* ---------------------------------------------------------------- C15
\* the worker threads that are alive
Alive == { w \in Workers : wpc[w] \in { "loop", "upload", "patch" } }

\* C15 as stated: at most one worker thread of the pipeline is alive.
C15_AsClaimed == Cardinality(Alive) <= 1

\* ---------------------------------------------------------------- C16
\* C16 as stated: a status observation that immediately follows a completed
\* clear of a non-empty collection sees no points and an empty upload queue.
C16_AsClaimed ==
    \A k \in 1 .. Len(status_seen) :
        (status_seen[k].after_clear /\ status_seen[k].cleared > 0) =>
            /\ status_seen[k].points_count = 0
            /\ status_seen[k].upload_status.queue_size = 0

\* ---------------------------------------------------------------- C17
\* the clear command has called recreate_collection
Recreated == command = "clear-collection" /\ "recreate_collection" \in Range(calls)
Affirmative == LowerStrip(typed) \in { "y", "yes" }

\* C17 as stated: in the shell and for the single commands alike,
\* recreate_collection is called only after the prompt has been answered
\* y or yes.
C17_AsClaimed == Recreated => ("input" \in Range(calls) /\ Affirmative)

\* C17 (amended): clear typed in the interactive shell calls
\* recreate_collection only after the prompt was answered y or yes, and
\* otherwise leaves the collection as it was; the single commands
\* clear-collection and clear do not prompt: they call recreate_collection
\* at once.
C17_ConfirmationInShellOnly ==
    /\ [](/\ (cli_mode = "interactive" /\ Recreated) =>
                (calls[1] = "input" /\ Affirmative)
          /\ (cli_mode = "interactive" /\ command = "clear-collection" /\ ~ Affirmative) =>
                (calls = << "input" >> /\ returned = "False")
          /\ (cli_mode = "cli" /\ command = "clear-collection" /\ returned # "none") =>
                calls = << "recreate_collection" >>)
    /\ [][ (cli_mode = "interactive" /\ command' = "clear-collection"
              /\ LowerStrip(typed') \notin { "y", "yes" })
           => (points' = points /\ collection_exists' = collection_exists) ]_vars

\* the shell has cleared a non-empty collection after the answer YES
C17_Witness ==
    /\ cli_mode = "interactive"
    /\ Recreated
    /\ typed = "YES"
    /\ cleared_points > 0
    /\ points = << >>
    /\ returned = "True"

\* ---------------------------------------------------------------- C18
\* an ask of this process has returned
AskRan ==
    \/ cli_mode = "cli" /\ command \in QueryCommands /\ returned # "none"
    \/ cli_mode = "interactive" /\ command = "ask"
SearchCalls == { "model_handler.setup", "get_query_embedding", "vector_db.search",
                 "search_with_openai_response", "analyze_images" }

\* C18: ask returns True or False and never raises, and it has printed a
\* message; an invalid query returns False with no call at all; a missing
\* or empty collection returns False with no embedding and no search; True
\* is returned only after a search that answered with points.
C18_AskReportsFailure ==
    AskRan =>
        /\ returned \in { "True", "False" }
        /\ out # << >>
        /\ ~ ValidateQuery(query) =>
              (returned = "False" /\ calls = << >> /\ out = ValidateMessage(query))
        /\ (ValidateQuery(query) /\ (~ collection_exists \/ VisiblePoints = {})) =>
              (returned = "False" /\ Range(calls) \cap SearchCalls = {})
        /\ returned = "True" =>
              /\ "vector_db.search" \in Range(calls)
              /\ out = << "Found results" >> \/ (yielded # << >> /\ yielded[1].body # << >>)

\* a search that raised has been reported and has returned False
C18_Witness ==
    /\ AskRan
    /\ ValidateQuery(query)
    /\ out = << "Error during search" >>
    /\ "get_query_embedding" \in Range(calls)
    /\ returned = "False"

\* ---------------------------------------------------------------- C19
\* C19: search_with_openai_response is called only with a handler; without
\* one a conversational ask does exactly what the plain ask does.
C19_DegradesToPlainSearch ==
    (AskRan /\ use_openai) =>
        /\ "search_with_openai_response" \in Range(calls) => openai_handler = "handler"
        /\ openai_handler = "none" =>
              /\ yielded = << >>
              /\ returned = "True" => out = << "Found results" >>
              /\ \A res \in Answerable, env \in Environments :
                    Ask(query, TRUE, "none", res, env) = Ask(query, FALSE, "none", res, env)

\* a conversational ask without handler has listed search results
C19_Witness ==
    /\ AskRan
    /\ use_openai
    /\ openai_handler = "none"
    /\ returned = "True"
    /\ out = << "Found results" >>
    /\ calls[Len(calls)] = "vector_db.search"

\* ---------------------------------------------------------------- C20
\* C20 as stated: a process that has exited has code 0 if its command
\* returned True and code 1 otherwise.
C20_AsClaimed ==
    cpc = "exited" => exit_code = (IF returned = "True" THEN 0 ELSE 1)

\* C20 (amended): a process whose command has run exits with 0 if the
\* command returned True and with 1 if it returned False; a process that
\* exits before any command has run exits with 1 after a fatal setup error
\* and with the usage error status when its arguments were rejected; a
\* process without subcommand prints the help and does not call sys.exit.
C20_ExitCodes ==
    /\ cpc = "exited" =>
          /\ returned \in { "True", "False", "none" }
          /\ returned = "True" => exit_code = 0
          /\ returned = "False" => exit_code = 1
          /\ returned = "none" =>
                /\ calls = << >>
                /\ \/ exit_code = 1 /\ out = << "Error setting up pipeline" >>
                   \/ exit_code = USAGE_ERROR /\ out = << "usage" >>
    /\ cpc = "returned" => (command = "none" /\ out = << "help" >> /\ returned = "none")

\* an ask whose search raised has exited with 1
C20_Witness ==
    /\ cpc = "exited"
    /\ command \in QueryCommands
    /\ out = << "Error during search" >>
    /\ returned = "False"
    /\ exit_code = 1

\* an upload all of whose batches failed has exited with 0
UploadedNothing ==
    /\ cpc = "exited"
    /\ command = "upload"
    /\ exit_code = 0
    /\ metrics.failed_batches >= 1
    /\ metrics.successful_batches = 0

\* ------------------------------------------------ the services (C21..C24, C30)

\* the step is a call of the named operation
Called(op) == ret'.op = op

\* every stored object other than the one with this id is as it was
OthersUnchanged(before, after, id) ==
    /\ DOMAIN after = DOMAIN before
    /\ \A i \in DOMAIN before \ { id } : after[i] = before[i]

\* C21: within one service instance the ids handed out are 1, 2, 3, ... in
\* creation order, an id is never handed out twice, get_user and get_task
\* return the object created with the id they are given, and None for an id
\* that was never assigned.
C21_IdsInCreationOrder ==
    /\ [](/\ DOMAIN users = 1 .. (user_next_id - 1)
          /\ DOMAIN tasks = 1 .. (task_next_id - 1)
          /\ \A i \in DOMAIN users : users[i].id = i
          /\ \A i \in DOMAIN tasks : tasks[i].id = i)
    /\ [][/\ (Called("create_user") /\ ret'.result = "object") =>
                /\ ret'.id = Cardinality(DOMAIN users) + 1
                /\ ret'.id \notin DOMAIN users
                /\ DOMAIN users' = DOMAIN users \cup { ret'.id }
                /\ \A i \in DOMAIN users : users'[i] = users[i]
          /\ Called("create_task") =>
                /\ ret'.id = Cardinality(DOMAIN tasks) + 1
                /\ ret'.id \notin DOMAIN tasks
                /\ DOMAIN tasks' = DOMAIN tasks \cup { ret'.id }
                /\ \A i \in DOMAIN tasks : tasks'[i] = tasks[i]
          /\ Called("get_user") =>
                \A user_id \in UserIds : GetUser(user_id) =>
                    IF user_id \in 1 .. (user_next_id - 1)
                    THEN ret'.result = "object" /\ ret'.id = user_id
                         /\ users[user_id].id = user_id
                    ELSE ret'.result = "None"
          /\ Called("get_task") =>
                \A task_id \in TaskIds : GetTask(task_id) =>
                    IF task_id \in 1 .. (task_next_id - 1)
                    THEN ret'.result = "object" /\ ret'.id = task_id
                         /\ tasks[task_id].id = task_id
                    ELSE ret'.result = "None"]_vars

\* two users and two tasks were created, and a lookup of an id that was never
\* assigned has just answered
C21_Witness ==
    /\ user_next_id = 3
    /\ task_next_id = 3
    /\ ret.op = "get_task"
    /\ ret.result = "None"

\* the condition under which the claim says assign_task succeeds
Assignable(task_id, user_id) ==
    /\ task_id \in DOMAIN tasks
    /\ user_id \in DOMAIN users
    /\ users[user_id].is_active

\* C22: assign_task returns True and sets assigned_to to the user exactly
\* when the task exists and the user exists and is active; otherwise it
\* returns False and no task changes.
C22_AssignChecksTaskAndUser ==
    [][Called("assign_task") =>
         \A task_id \in TaskIds, user_id \in UserIds, t \in Times :
            AssignTask(task_id, user_id, t) =>
               IF Assignable(task_id, user_id)
               THEN /\ ret'.result = "True"
                    /\ tasks'[task_id].assigned_to = user_id
                    /\ tasks'[task_id].status = tasks[task_id].status
                    /\ OthersUnchanged(tasks, tasks', task_id)
                    /\ users' = users
               ELSE /\ ret'.result = "False"
                    /\ tasks' = tasks
                    /\ users' = users]_vars

\* assign_task has just refused, with two tasks stored and a deactivated
\* user in the store
C22_Witness ==
    /\ ret.op = "assign_task"
    /\ ret.result = "False"
    /\ task_next_id = 3
    /\ \E u \in DOMAIN users : ~ users[u].is_active
    /\ \E u \in DOMAIN users : \E k \in DOMAIN tasks : tasks[k].assigned_to = u

\* C23: complete_task returns True and sets the status to COMPLETED exactly
\* when the task exists, whatever its status was; for an unknown id it
\* returns False and no task changes.
C23_CompleteFromAnyStatus ==
    [][Called("complete_task") =>
         \A task_id \in TaskIds, t \in Times :
            CompleteTask(task_id, t) =>
               IF task_id \in DOMAIN tasks
               THEN /\ ret'.result = "True"
                    /\ tasks'[task_id].status = "completed"
                    /\ tasks'[task_id].assigned_to = tasks[task_id].assigned_to
                    /\ OthersUnchanged(tasks, tasks', task_id)
               ELSE /\ ret'.result = "False"
                    /\ tasks' = tasks]_vars

\* complete_task has just succeeded while another task stays cancelled
C23_Witness ==
    /\ ret.op = "complete_task"
    /\ ret.result = "True"
    /\ \E k \in DOMAIN tasks : tasks[k].status = "completed"
    /\ \E k \in DOMAIN tasks : tasks[k].status = "cancelled"

\* C24: deactivate_user returns True and sets is_active to False exactly when
\* the user exists; for an unknown id it returns False and nothing changes;
\* it removes no user and changes no other user's fields.
C24_DeactivateKeepsUsers ==
    [][Called("deactivate_user") =>
         \A user_id \in UserIds :
            DeactivateUser(user_id) =>
               /\ DOMAIN users' = DOMAIN users
               /\ tasks' = tasks
               /\ IF user_id \in DOMAIN users
                  THEN /\ ret'.result = "True"
                       /\ ~ users'[user_id].is_active
                       /\ users'[user_id].id = users[user_id].id
                       /\ users'[user_id].username = users[user_id].username
                       /\ OthersUnchanged(users, users', user_id)
                  ELSE /\ ret'.result = "False"
                       /\ users' = users]_vars

\* deactivate_user has just succeeded and the other user is still active
C24_Witness ==
    /\ ret.op = "deactivate_user"
    /\ ret.result = "True"
    /\ \E u \in DOMAIN users : ~ users[u].is_active
    /\ \E u \in DOMAIN users : users[u].is_active

\* the task is unassigned or assigned to a stored, active user
AssigneeActive(task) ==
    \/ task.assigned_to = NoneId
    \/ task.assigned_to \in DOMAIN users /\ users[task.assigned_to].is_active

\* C30 as stated: after any sequence of service operations every task's
\* assigned_to is None or the id of an existing, active user.
C30_AsClaimed == \A k \in DOMAIN tasks : AssigneeActive(tasks[k])

\* C30: the assignee is checked by assign_task alone: right after a
\* successful assign_task the task it assigned is assigned to a stored,
\* active user, and no operation other than create_task, update_task and
\* deactivate_user makes a task's assignee missing or inactive.
C30_CheckedByAssignOnly ==
    [][/\ (Called("assign_task") /\ ret'.result = "True") =>
             \A k \in DOMAIN tasks' :
                (tasks'[k] # tasks[k]) =>
                   /\ tasks'[k].assigned_to \in DOMAIN users'
                   /\ users'[tasks'[k].assigned_to].is_active
       /\ (/\ \A k \in DOMAIN tasks : AssigneeActive(tasks[k])
           /\ ~ Called("create_task")
           /\ ~ Called("update_task")
           /\ ~ Called("deactivate_user")) =>
             (\A k \in DOMAIN tasks' : AssigneeActive(tasks[k])')]_vars

\* assign_task has just assigned a task to an active user
C30_Witness ==
    /\ ret.op = "assign_task"
    /\ ret.result = "True"
    /\ \E k \in DOMAIN tasks : tasks[k].assigned_to # NoneId /\ AssigneeActive(tasks[k])
    /\ \E k \in DOMAIN tasks : ~ AssigneeActive(tasks[k])

\* ------------------------------------------------ the pipeline (C25..C29)

\* the outcome ledgers that hold the task's point id
InResults(task) == task.point_id \in DOMAIN upload_results
InErrors(task) == task.point_id \in DOMAIN upload_errors

C26_AsClaimed ==
    [][(rerank /\ EmbedBatch(TRUE)) =>
          /\ metrics'.failed_batches = metrics.failed_batches
          /\ Len(batch_points') = Len(batch_data)]_vars

\* C27 as stated: in every snapshot get_upload_status can return,
\* completed + failed <= total and the pending count is not negative.
C27_AsClaimed ==
    /\ GetUploadStatus.completed + GetUploadStatus.failed <= GetUploadStatus.total
    /\ GetUploadStatus.pending >= 0

\* the points the call has upserted so far, in the order of their upsert
RECURSIVE UpsertedOf(_)
UpsertedOf(log) ==
    IF log = <<>> THEN <<>>
    ELSE UpsertedOf(SubSeq(log, 1, Len(log) - 1)) \o log[Len(log)].upserted

\* C28 as stated: no point the call upserts has the identifier of a point that
\* was in the collection when the call started (these are 0 .. start_count - 1),
\* and no two points of the call share an identifier.
C28_AsClaimed ==
    LET ups == UpsertedOf(batch_log)
    IN  /\ \A k \in 1 .. Len(ups) : ups[k].id \notin 0 .. start_count - 1
        /\ \A k, m \in 1 .. Len(ups) : ups[k].id = ups[m].id => k = m

\* the foreground is between two batches, or past the last one
AtBatchBoundary == run >= 1 /\ fpc \in { "next", "stop", "join", "idle" }

\* C29: at every batch boundary successful_batches + failed_batches is the
\* number of batches consumed, and processed_docs, total_upload_tasks and the
\* running document index all equal the number of points upserted so far; a
\* failing batch changes none of the three; the identifiers of the upserted
\* points are consecutive, starting at initial_points_count.
C29_CountersAtBatchBoundary ==
    /\ [](AtBatchBoundary =>
            LET ups == UpsertedOf(batch_log)
            IN  /\ metrics.successful_batches + metrics.failed_batches = Len(batch_log)
                /\ Len(batch_log) = batch_id
                /\ metrics.successful_batches = Len(batch_log) - Cardinality(FailedEntries)
                /\ metrics.processed_docs = Len(ups)
                /\ metrics.total_upload_tasks = Len(ups)
                /\ global_doc_index = Len(ups)
                /\ \A k \in 1 .. Len(ups) : ups[k].id = initial_points_count + k - 1)
    /\ [][BatchFailsStep =>
            /\ metrics'.processed_docs = metrics.processed_docs
            /\ metrics'.total_upload_tasks = metrics.total_upload_tasks
            /\ global_doc_index' = global_doc_index
            /\ metrics'.failed_batches = metrics.failed_batches + 1]_vars

\* a call is over in which a batch failed between two batches that were
\* upserted
C29_Witness ==
    /\ RunDone
    /\ Len(batch_log) = 3
    /\ batch_log[1].ok /\ ~ batch_log[2].ok /\ batch_log[3].ok
    /\ metrics.processed_docs = 2

====
